---- MODULE Spec2Model ----
(***************************************************************************)
(* Lead qualification pipeline of linkedin_lead_monitor: the SQLite dedup  *)
(* and lead store (database.py), the GPT budget/quota guard and the        *)
(* classifier client with its retry loop (scraper_linkedin.py), the        *)
(* LinkedIn batch loop (process_posts_batch) and the two other writers of  *)
(* the same store (scraper_twitter.py, scraper_bluesky.py).                *)
(***************************************************************************)
EXTENDS Integers, Sequences, FiniteSets, TLC

\* ---------------------------------------------------------------- bounds
\* Largest batch handed to process_posts_batch in one run.
MaxBatch == 2
\* run_scheduler_loop threads the dashboard can create.
MaxLoops == 2
\* Scraper jobs that start; time.time() is counted in job starts.
MaxRuns == 2
\* monitoring.interval_hours is 1..MaxInterval.
MaxInterval == 2
\* wait_for_completion is called with timeout 0..MaxTimeout seconds and
\* poll_interval 1..MaxPollInterval seconds.
MaxTimeout == 6
MaxPollInterval == 2
\* Largest number of tweets one keyword search returns.
MaxTweets == 2
\* Calendar dates are 1..MaxDate (datetime.date.today(), datetime.now()).
MaxDate == 2
\* Largest cost of one classifier call, in cost units.
MaxCallCost == 2
\* Daily call limit (1000 in the source), scaled down to cost units of calls.
GPT_DAILY_CALL_LIMIT == 2
\* Per-run cost ceiling (5.00 dollars in the source, config max_cost_per_run).
GPT_MAX_COST_PER_RUN == 3

\* Largest number of finished containers the PhantomBuster agent has.
MaxContainers == 4
\* Largest number of configured keywords.
MaxKeywords == 2

\* ------------------------------------------------------ program constants
GPT_CIRCUIT_BREAKER_THRESHOLD == 5
max_retries == 3
\* limit of client.get_all_containers in the cached path
containers_limit == 10

\* ------------------------------------------------------------ value sets
None == "None"
Ids == {"a", "b", "c"}

\* A permalink, reduced to what extract_activity_id reads from it: the
\* 19-digit id of its /posts/ path segment (posts), the first 19-digit run
\* anywhere in it (digits), and a tag that tells two permalinks of the same
\* post apart.  NoUrl is Python's None.
NoUrl == [posts |-> None, digits |-> None, tag |-> 0]
UrlsOf(ids, tags) ==
  { u \in [posts : ids \cup {None}, digits : ids \cup {None}, tag : tags] :
      /\ u.posts # None => u.digits = u.posts
      /\ u.tag # 1 => u.posts # None }

Texts == {None, "plain", "need a pr agency"}

\* Raw post dictionaries as the connectors hand them to the batch loop
\* (keys activity_id, post_url, url, text, author_name; None is a missing
\* key or a null value).
PostsOf(ids, tags) ==
  { p \in [activity_id : ids \cup {None},
           post_url : UrlsOf(ids, tags) \cup {NoUrl},
           url : UrlsOf(ids, {1}) \cup {NoUrl},
           text : Texts, author_name : {None, "n"}] :
      /\ p.activity_id # None /\ p.post_url # NoUrl
            => p.post_url.posts = p.activity_id
      /\ p.url # NoUrl => p.post_url = NoUrl /\ p.url.posts = None
      /\ p.author_name = None => p.text = "plain" }

\* What the classifier service can answer to one request: a transport
\* error, a rate-limit error, a body that is not JSON, or a JSON object.
\* is_genuine_lead "maybe" is a non-boolean, reasoning is kept by length
\* and type, confidence_score by its value and score_type (a bool counts
\* by its int value), and missing holds the required keys the object lacks.
\* The objects are the two well-formed answers and, for each validated
\* field, one answer that is wrong in that field alone.
GoodResponse(is_lead) ==
  [is_genuine_lead |-> is_lead, confidence_score |-> 90,
   lead_quality |-> "hot", hiring_type |-> "agency",
   reasoning_len |-> 10, red_flags |-> <<>>,
   score_type |-> "int", reasoning_type |-> "str", missing |-> {}]
ValidResponses == {GoodResponse("True"), GoodResponse("False")}
InvalidResponses ==
  { [GoodResponse("True") EXCEPT !.is_genuine_lead = "maybe"],
    [GoodResponse("True") EXCEPT !.confidence_score = 101],
    [GoodResponse("True") EXCEPT !.confidence_score = -1],
    [GoodResponse("True") EXCEPT !.lead_quality = "lukewarm"],
    [GoodResponse("True") EXCEPT !.hiring_type = "freelance"],
    [GoodResponse("False") EXCEPT !.reasoning_len = 9] }
Responses == ValidResponses \cup InvalidResponses
ErrorKinds == {"api_error", "rate_limit", "bad_json"}
CallCosts == 0 .. MaxCallCost

\* The empty string: falsy in Python, but not None.
Empty == ""
\* A text that is not a string (a JSON number, list or object).
NotAString == "<not a string>"

NoLeadData == [activity_id |-> None, post_url |-> NoUrl,
               post_content |-> None, author_name |-> None]
NoPost == [activity_id |-> None, url |-> NoUrl, lead_data |-> NoLeadData]
NoItem == "none"
NoVerdict == [is_genuine_lead |-> "False", confidence_score |-> 0,
              lead_quality |-> None, hiring_type |-> None,
              reasoning_len |-> 0, red_flags |-> <<>>,
              score_type |-> "int", reasoning_type |-> "str",
              missing |-> {}]
NoCall == [platform |-> None, activity_id |-> None, ret |-> FALSE]
NoFetch == [container_id |-> 0, processed |-> FALSE]
\* The threads that call run_scraper_job: thread 0 runs the dashboard script
\* (its buttons, run_once), the others are the run_scheduler_loop threads
\* that start_background_scheduler creates, one per call that finds no
\* scheduler running.
LoopThreads == 1 .. MaxLoops
Threads == {0} \cup LoopThreads
\* No call of a pure function is under way.
NoArgs == [fn |-> "none"]
NoResult == [returned |-> FALSE]
NoSave == [platform |-> None, post_id |-> None, ret |-> FALSE]

VARIABLES
  activity_ids,                \* table activity_ids: set of rows
  leads,                       \* table leads: set of rows
  today,                       \* the wall clock's calendar date
  GPT_FAILURE_COUNT,
  GPT_CIRCUIT_BREAKER_ACTIVE,
  GPT_DAILY_CALL_COUNT,
  GPT_LAST_RESET_DATE,         \* 0 is Python's None
  GPT_COST_THIS_RUN,
  pc,                          \* position of the LinkedIn run
  remaining,                   \* posts of the batch not yet started
  activity_id_bound,           \* the loop's local activity_id is assigned
  activity_id_truthy,          \* ... and holds a non-empty id
  processed_count,             \* process_posts_batch's local; its result in
                               \* the state the batch ends in
  n_failed_activity_ids,       \* len(failed_activity_ids), likewise
  cur,                         \* the post being classified
  attempt,                     \* loop variable of the retry loop
  verdict,                     \* value returned by analyze_lead_with_gpt
  via,                         \* history: which return produced verdict
  reqs_in_call,                \* history: requests sent by the current call
  sent_today,                  \* history: requests sent on the date today
  run_exceeded,                \* history: track_gpt_cost raised in this run
  last_reg,                    \* history: save_activity_id call of last step
  item,                        \* history: outcome of the item just ended
  last_reset,                  \* history: last step reset a run cost > 0
  last_save,                   \* history: save_lead call of the last step
  containers,                  \* the agent's finished containers, latest first
  processed_containers,        \* table processed_containers: set of ids
  keywords_left,               \* keywords the fetch loop has not searched yet
  last_fetch,                  \* history: cached-path fetch of the last step
  call_args,                   \* arguments of a call of a pure function
  call_result,                 \* the value that call returned
  monitoring_active,           \* config["monitoring"]["active"]
  scheduler_running,           \* dashboard._scheduler_running
  is_running,                  \* ScraperMonitor.is_running
  last_run_status,             \* ScraperMonitor.last_run_status
  job,                         \* per thread: its position in run_scraper_job
  last_run_time,               \* ScraperMonitor.last_run_time; 0 is None
  next_run_time,               \* ScraperMonitor.next_run_time; 0 is None
  interval_hours,              \* config["monitoring"]["interval_hours"]
  stale                        \* history: loop threads alive at the last
                               \* stop that have not reached their check

storeVars == <<activity_ids, leads>>
guardVars == <<GPT_FAILURE_COUNT, GPT_CIRCUIT_BREAKER_ACTIVE,
               GPT_DAILY_CALL_COUNT, GPT_LAST_RESET_DATE, GPT_COST_THIS_RUN>>
countVars == <<activity_id_truthy, processed_count, n_failed_activity_ids>>
runVars == <<pc, remaining, activity_id_bound, cur, attempt, verdict,
             countVars>>
histVars == <<via, reqs_in_call, sent_today, run_exceeded, last_reg, item,
              last_reset, last_save>>
fetchVars == <<containers, processed_containers, keywords_left, last_fetch>>
callVars == <<call_args, call_result>>
monitorVars == <<monitoring_active, scheduler_running, is_running,
                 last_run_status, job, last_run_time, next_run_time,
                 interval_hours, stale>>
vars == <<storeVars, today, guardVars, runVars, histVars, fetchVars,
          callVars, monitorVars>>

\* ------------------------------------------------------------- database.py
ActivityKeyExists(tbl, platform, activity_id) ==
  \E r \in tbl : r.platform = platform /\ r.activity_id = activity_id

\* INSERT OR REPLACE in place of INSERT OR IGNORE.
save_activity_id_replace(tbl, platform, activity_id, original_url, now) ==
  [ret |-> TRUE,
   tbl |-> { r \in tbl : ~(r.platform = platform
                           /\ r.activity_id = activity_id) }
           \cup {[platform |-> platform, activity_id |-> activity_id,
                  original_url |-> original_url, discovered_at |-> now,
                  scraped |-> FALSE]}]

\* INSERT OR IGNORE under UNIQUE(platform, activity_id); returns rowcount > 0.
save_activity_id(tbl, platform, activity_id, original_url, now) ==
  IF ActivityKeyExists(tbl, platform, activity_id)
    THEN [ret |-> FALSE, tbl |-> tbl]
    ELSE [ret |-> TRUE,
          tbl |-> tbl \cup {[platform |-> platform,
                             activity_id |-> activity_id,
                             original_url |-> original_url,
                             discovered_at |-> now,
                             scraped |-> FALSE]}]

\* An UPDATE that matches no row.
mark_activity_scraped_noop(tbl, platform, activity_id) == tbl

\* INSERT OR REPLACE of a scraped row in place of the UPDATE.
mark_activity_scraped_upsert(tbl, platform, activity_id) ==
  { r \in tbl : ~(r.platform = platform /\ r.activity_id = activity_id) }
    \cup {[platform |-> platform, activity_id |-> activity_id,
            original_url |-> NoUrl,
            discovered_at |-> 1, scraped |-> TRUE]}

\* UPDATE activity_ids SET scraped = 1 WHERE platform = ? AND activity_id = ?
mark_activity_scraped(tbl, platform, activity_id) ==
  { IF r.platform = platform /\ r.activity_id = activity_id
      THEN [r EXCEPT !.scraped = TRUE]
      ELSE r : r \in tbl }

\* leads.id INTEGER PRIMARY KEY AUTOINCREMENT: no row is ever deleted, so the
\* next id is one more than the number of rows.
NextLeadId(tbl) == Cardinality(tbl) + 1

\* Plain INSERT into a leads table that lost its UNIQUE constraint.
save_lead_no_unique(tbl, platform, post_id, post_url, now) ==
  [ret |-> TRUE,
   tbl |-> tbl \cup {[id |-> NextLeadId(tbl),
                      platform |-> platform, post_id |-> post_id,
                      post_url |-> post_url, scraped_at |-> now,
                      dismissed |-> 0]}]

\* INSERT OR IGNORE under post_id UNIQUE; returns rowcount > 0.  The insert
\* names no dismissed column, so the row gets DEFAULT 0.
save_lead(tbl, platform, post_id, post_url, now) ==
  IF \E r \in tbl : r.post_id = post_id
    THEN [ret |-> FALSE, tbl |-> tbl]
    ELSE [ret |-> TRUE,
          tbl |-> tbl \cup {[id |-> NextLeadId(tbl),
                             platform |-> platform,
                             post_id |-> post_id,
                             post_url |-> post_url,
                             scraped_at |-> now,
                             dismissed |-> 0]}]

\* SET dismissed = 1 - dismissed in place of SET dismissed = 1.
dismiss_lead_toggle(tbl, lead_id) ==
  [ret |-> \E r \in tbl : r.id = lead_id,
   tbl |-> { IF r.id = lead_id THEN [r EXCEPT !.dismissed = 1 - r.dismissed]
                               ELSE r : r \in tbl }]

\* UPDATE leads SET dismissed = 1 WHERE id = ?; returns rowcount > 0.
dismiss_lead(tbl, lead_id) ==
  [ret |-> \E r \in tbl : r.id = lead_id,
   tbl |-> { IF r.id = lead_id THEN [r EXCEPT !.dismissed = 1] ELSE r :
             r \in tbl }]

\* ------------------------------------------------ scraper_linkedin.py: guard
\* Adds the call's cost to the run's total, then raises when the total is
\* above the ceiling.  A model missing from GPT_MODEL_COSTS costs 0.
track_gpt_cost(run_cost, call_cost) ==
  [cost |-> run_cost + call_cost,
   raised |-> run_cost + call_cost > GPT_MAX_COST_PER_RUN]

reset_run_cost == 0

reset_gpt_circuit_breaker == [count |-> 0, active |-> FALSE]

\* Blocks the call but never raises the flag (the global is not assigned).
\* Never blocks, whatever the failure count.
check_gpt_circuit_breaker_never(count, active) ==
  [ret |-> FALSE, active |-> active]

\* Half-open breaker: once open, the next check closes it and lets the
\* call through.
check_gpt_circuit_breaker_half_open(count, active) ==
  IF count >= GPT_CIRCUIT_BREAKER_THRESHOLD /\ ~active
    THEN [ret |-> TRUE, active |-> TRUE]
    ELSE [ret |-> FALSE, active |-> FALSE]

check_gpt_circuit_breaker_no_flag(count, active) ==
  [ret |-> count >= GPT_CIRCUIT_BREAKER_THRESHOLD, active |-> active]

check_gpt_circuit_breaker(count, active) ==
  IF count >= GPT_CIRCUIT_BREAKER_THRESHOLD
    THEN [ret |-> TRUE, active |-> TRUE]
    ELSE [ret |-> FALSE, active |-> active]

\* Counts a failure twice.
record_gpt_failure_twice(count) == count + 2

record_gpt_failure(count) == count + 1

\* Never resets the counter on a new date.
check_daily_gpt_limit_no_reset(count, last, date) ==
  [ret |-> count >= GPT_DAILY_CALL_LIMIT, count |-> count, last |-> date]

\* Never reports the limit as reached.
check_daily_gpt_limit_never(count, last, date) ==
  LET c == IF last # date THEN 0 ELSE count
  IN  [ret |-> FALSE, count |-> c, last |-> date]

\* Blocks one call late: > in place of >=.
check_daily_gpt_limit_late(count, last, date) ==
  LET c == IF last # date THEN 0 ELSE count
  IN  [ret |-> c > GPT_DAILY_CALL_LIMIT, count |-> c, last |-> date]

check_daily_gpt_limit(count, last, date) ==
  LET c == IF last # date THEN 0 ELSE count
  IN  [ret |-> c >= GPT_DAILY_CALL_LIMIT, count |-> c, last |-> date]

record_gpt_call(count) == count + 1

get_gpt_usage_stats ==
  [daily_calls |-> GPT_DAILY_CALL_COUNT,
   daily_limit |-> GPT_DAILY_CALL_LIMIT,
   circuit_breaker_active |-> GPT_CIRCUIT_BREAKER_ACTIVE,
   failure_count |-> GPT_FAILURE_COUNT,
   last_reset_date |-> GPT_LAST_RESET_DATE]

required_fields ==
  {"is_genuine_lead", "confidence_score", "lead_quality", "hiring_type",
   "reasoning"}

\* Without the isinstance check of the lead flag.
validate_gpt_response_any_flag(response) ==
  /\ response.missing \cap required_fields = {}
  /\ response.score_type \in {"int", "float", "bool"}
  /\ 0 <= response.confidence_score /\ response.confidence_score <= 100
  /\ response.lead_quality \in {"hot", "warm", "cold"}
  /\ response.hiring_type \in {"agency", "in-house", "unclear"}
  /\ response.reasoning_type = "str"
  /\ response.reasoning_len >= 10

\* isinstance(score, (int, float)) also holds for a bool, a subclass of int.
validate_gpt_response(response) ==
  /\ response.missing \cap required_fields = {}
  /\ response.is_genuine_lead \in {"True", "False"}
  /\ response.score_type \in {"int", "float", "bool"}
  /\ 0 <= response.confidence_score /\ response.confidence_score <= 100
  /\ response.lead_quality \in {"hot", "warm", "cold"}
  /\ response.hiring_type \in {"agency", "in-house", "unclear"}
  /\ response.reasoning_type = "str"
  /\ response.reasoning_len >= 10

\* Fails closed: the fallback drops the post.
create_fallback_response_closed(reason_len) ==
  [is_genuine_lead |-> "False", confidence_score |-> 50,
   lead_quality |-> "warm", hiring_type |-> "unclear",
   reasoning_len |-> 26 + reason_len,
   red_flags |-> <<"GPT analysis unavailable">>,
   score_type |-> "int", reasoning_type |-> "str", missing |-> {}]

\* Fallback that leaves the confidence unrated: None in place of 50.
create_fallback_response_unrated(reason_len) ==
  [is_genuine_lead |-> "True", confidence_score |-> 0,
   lead_quality |-> "warm", hiring_type |-> "unclear",
   reasoning_len |-> 26 + reason_len,
   red_flags |-> <<"GPT analysis unavailable">>,
   score_type |-> "NoneType", reasoning_type |-> "str", missing |-> {}]

\* len("GPT analysis unavailable: ") = 26, so the reasoning is never short.
create_fallback_response(reason_len) ==
  [is_genuine_lead |-> "True", confidence_score |-> 50,
   lead_quality |-> "warm", hiring_type |-> "unclear",
   reasoning_len |-> 26 + reason_len,
   red_flags |-> <<"GPT analysis unavailable">>,
   score_type |-> "int", reasoning_type |-> "str", missing |-> {}]

\* ---------------------------------------------- scraper_linkedin.py: posts
extract_activity_id(url) ==
  IF url.posts # None THEN url.posts ELSE url.digits

\* Python's "not x" for an id field: None and the empty string are falsy.
Falsy(x) == x \in {None, Empty}

\* dict.get(key, default): the values the pipeline reads later.
extract_lead_data(post_data) ==
  [activity_id |-> post_data.activity_id,
   post_url |-> post_data.post_url,
   post_content |-> post_data.text,
   author_name |-> post_data.author_name]

\* A validation that only asks for the id.
validate_post_id_only(post_data) == post_data.activity_id # None

\* "field in post_data and post_data[field] is not None" for each field.
validate_post(post_data) ==
  /\ post_data.activity_id # None
  /\ post_data.post_url # NoUrl
  /\ post_data.text # None
  /\ post_data.author_name # None

\* A filter that lets every text through.
passes_pr_content_filter_all(post_data) == post_data.text # None

\* One of the pr_indicators occurs in the lower-cased text.
passes_pr_content_filter(post_data) == post_data.text = "need a pr agency"

\* ------------------------------------------------------------------ Init
\* ---------------------------------------------------------------- strings
\* A Python str is the sequence of its characters, each a one-character
\* string.  NoStr is Python's None and NotAStr a value of another type
\* where a str may stand: one-element tuples that hold no character.
NoStr == <<None>>
NotAStr == <<NotAString>>
\* Python's "not x" for such a value.
FalsyStr(x) == x \in {NoStr, <<>>}
ascii_uppercase ==
  <<"A", "B", "C", "D", "E", "F", "G", "H", "I", "J", "K", "L", "M",
    "N", "O", "P", "Q", "R", "S", "T", "U", "V", "W", "X", "Y", "Z">>
ascii_lowercase ==
  <<"a", "b", "c", "d", "e", "f", "g", "h", "i", "j", "k", "l", "m",
    "n", "o", "p", "q", "r", "s", "t", "u", "v", "w", "x", "y", "z">>

\* str.lower(), character by character.
lower_char(c) ==
  IF \E i \in 1 .. Len(ascii_uppercase) : ascii_uppercase[i] = c
    THEN ascii_lowercase[CHOOSE i \in 1 .. Len(ascii_uppercase) :
                           ascii_uppercase[i] = c]
    ELSE c
lower(str) == [i \in 1 .. Len(str) |-> lower_char(str[i])]

\* Python's "sub in str".
Contains(sub, str) ==
  \E k \in 0 .. Len(str) - Len(sub) : SubSeq(str, k + 1, k + Len(sub)) = sub

\* str.strip(chars): the characters of chars removed from both ends.
strip(str, chars) ==
  LET keep == { i \in 1 .. Len(str) : str[i] \notin chars }
  IN  IF keep = {} THEN <<>>
      ELSE SubSeq(str, CHOOSE i \in keep : \A j \in keep : i <= j,
                       CHOOSE i \in keep : \A j \in keep : j <= i)

\* A comparison of the terms with the text as it stands, without lower().
detect_matched_filters_case_sensitive(post_content, author_title, config) ==
  LET title == IF FalsyStr(author_title) THEN <<>> ELSE author_title
      KeywordIn(keyword) == Contains(strip(keyword, {"\""}), post_content)
      TermIn(term) == Contains(term, title) \/ Contains(term, post_content)
  IN  [matched_keywords |-> SelectSeq(config.keywords, KeywordIn),
       matched_roles |-> SelectSeq(config.job_titles, TermIn),
       matched_categories |-> SelectSeq(config.industries, TermIn)]

\* Roles and categories looked for in the post content only.
detect_matched_filters_content_only(post_content, author_title, config) ==
  LET post_lower == lower(post_content)
      KeywordIn(keyword) ==
        Contains(lower(strip(keyword, {"\""})), post_lower)
      TermIn(term) == Contains(lower(term), post_lower)
  IN  [matched_keywords |-> SelectSeq(config.keywords, KeywordIn),
       matched_roles |-> SelectSeq(config.job_titles, TermIn),
       matched_categories |-> SelectSeq(config.industries, TermIn)]

\* detect_matched_filters: the keywords, roles and categories of the
\* configuration found in the post.  Each loop "for term in list: if ...:
\* matched.append(term)" selects the terms that pass, in the list's order.
detect_matched_filters(post_content, author_title, config) ==
  LET post_lower == lower(post_content)
      title_lower ==
        IF FalsyStr(author_title) THEN <<>> ELSE lower(author_title)
      KeywordIn(keyword) ==
        LET clean_keyword == lower(strip(keyword, {"\""}))
        IN  Contains(clean_keyword, post_lower)
      TermIn(term) ==
        Contains(lower(term), title_lower) \/ Contains(lower(term), post_lower)
  IN  [matched_keywords |-> SelectSeq(config.keywords, KeywordIn),
       matched_roles |-> SelectSeq(config.job_titles, TermIn),
       matched_categories |-> SelectSeq(config.industries, TermIn)]

\* Characters that str.strip() removes and that \\b counts as word characters.
whitespace == {" ", "\t", "\n", "\r"}
WordChars ==
  { ascii_lowercase[i] : i \in 1 .. Len(ascii_lowercase) }
    \cup { ascii_uppercase[i] : i \in 1 .. Len(ascii_uppercase) }
    \cup {"0", "1", "2", "3", "4", "5", "6", "7", "8", "9", "_"}

\* The least member of a non-empty set of positions.
First(positions) == CHOOSE k \in positions : \A j \in positions : k <= j

\* str.split(sep, 1)[1].strip() for a one-character sep that occurs in str.
AfterFirst(str, sep) ==
  LET k == First({ i \in 1 .. Len(str) : str[i] = sep })
  IN  strip(SubSeq(str, k + 1, Len(str)), whitespace)

\* The positions where re.search(r"\bat\b(.+)", str, re.IGNORECASE) can
\* match: "at" in either case, no word character before it, and after it a
\* character that is neither a word character (\b) nor a newline (.+).
AtMatches(str) ==
  { k \in 1 .. Len(str) - 2 :
      /\ lower(SubSeq(str, k, k + 1)) = <<"a", "t">>
      /\ k = 1 \/ str[k - 1] \notin WordChars
      /\ str[k + 2] \notin WordChars
      /\ str[k + 2] # "\n" }

\* group(1) of the leftmost match: the rest of the line after "at".
AtGroup(str) ==
  LET k == First(AtMatches(str))
      newlines == { j \in k + 2 .. Len(str) : str[j] = "\n" }
  IN  SubSeq(str, k + 2,
             IF newlines = {} THEN Len(str) ELSE First(newlines) - 1)

\* The "|" separator tried before the "@" separator.
extract_company_from_title_pipe_first(title) ==
  IF FalsyStr(title) \/ title = NotAStr THEN NoStr
  ELSE LET stripped == strip(title, whitespace)
       IN  IF stripped = <<>> THEN NoStr
           ELSE IF AtMatches(stripped) # {}
             THEN strip(AtGroup(stripped), whitespace)
           ELSE IF Contains(<<"|">>, stripped)
             THEN AfterFirst(stripped, "|")
           ELSE IF Contains(<<"@">>, stripped)
             THEN AfterFirst(stripped, "@")
           ELSE NoStr

\* extract_company_from_title: the company named in an author title.
extract_company_from_title(title) ==
  IF FalsyStr(title) \/ title = NotAStr THEN NoStr
  ELSE LET stripped == strip(title, whitespace)
       IN  IF stripped = <<>> THEN NoStr
           ELSE IF AtMatches(stripped) # {}
             THEN strip(AtGroup(stripped), whitespace)
           ELSE IF Contains(<<"@">>, stripped)
             THEN AfterFirst(stripped, "@")
           ELSE IF Contains(<<"|">>, stripped)
             THEN AfterFirst(stripped, "|")
           ELSE NoStr

\* The program right after its start: empty tables, module globals at
\* their declared values, no run under way.
InitProgram ==
  /\ activity_ids = {}
  /\ leads = {}
  /\ today = 1
  /\ GPT_FAILURE_COUNT = 0
  /\ GPT_CIRCUIT_BREAKER_ACTIVE = FALSE
  /\ GPT_DAILY_CALL_COUNT = 0
  /\ GPT_LAST_RESET_DATE = 0
  /\ GPT_COST_THIS_RUN = 0
  /\ pc = "idle"
  /\ remaining = 0
  /\ activity_id_bound = FALSE
  /\ activity_id_truthy = FALSE
  /\ processed_count = 0
  /\ n_failed_activity_ids = 0
  /\ cur = NoPost
  /\ attempt = 0
  /\ verdict = NoVerdict
  /\ via = "none"
  /\ reqs_in_call = 0
  /\ sent_today = 0
  /\ run_exceeded = FALSE
  /\ last_reg = NoCall
  /\ item = NoItem
  /\ last_reset = FALSE
  /\ last_save = NoSave
  /\ containers = <<>>
  /\ processed_containers = {}
  /\ keywords_left = 0
  /\ last_fetch = NoFetch
  /\ monitoring_active = FALSE
  /\ scheduler_running = FALSE
  /\ is_running = FALSE
  /\ last_run_status = "Not started"
  /\ job = [t \in Threads |-> IF t = 0 THEN "idle" ELSE "unstarted"]
  /\ last_run_time = 0
  /\ next_run_time = 0
  /\ stale = {}

Init ==
  /\ InitProgram
  /\ interval_hours = 1
  /\ call_args = NoArgs
  /\ call_result = NoResult

\* Position of the batch loop once the current item is over.
LoopNext(rem) == IF rem = 0 THEN "idle" ELSE "loop"

\* The locals of process_posts_batch are gone once it has returned: a step
\* taken outside a run leaves no result of an earlier run behind.
LocalsOutsideRun ==
  /\ activity_id_truthy' = activity_id_truthy
  /\ processed_count' = IF pc = "idle" THEN 0 ELSE processed_count
  /\ n_failed_activity_ids' =
       IF pc = "idle" THEN 0 ELSE n_failed_activity_ids

\* --------------------------------------------------------------- actions
\* The start of a run also resets the circuit breaker.
main_resets_breaker(n) ==
  /\ pc = "idle"
  /\ GPT_COST_THIS_RUN' = 0
  /\ GPT_FAILURE_COUNT' = 0
  /\ GPT_CIRCUIT_BREAKER_ACTIVE' = FALSE
  /\ run_exceeded' = FALSE
  /\ remaining' = n
  /\ pc' = LoopNext(n)
  /\ last_reg' = NoCall
  /\ activity_id_bound' = FALSE
  /\ activity_id_truthy' = FALSE
  /\ processed_count' = 0
  /\ n_failed_activity_ids' = 0
  /\ item' = NoItem
  /\ last_reset' = (GPT_COST_THIS_RUN > 0)
  /\ UNCHANGED <<storeVars, today, GPT_DAILY_CALL_COUNT,
                 GPT_LAST_RESET_DATE, cur, attempt, verdict, via,
                 reqs_in_call, sent_today>>
  /\ last_save' = NoSave
  /\ UNCHANGED fetchVars
  /\ UNCHANGED callVars
  /\ UNCHANGED monitorVars

\* The start of a run leaves the cost of the last run in place.
main_keeps_cost(n) ==
  /\ pc = "idle"
  /\ run_exceeded' = FALSE
  /\ remaining' = n
  /\ pc' = LoopNext(n)
  /\ last_reg' = NoCall
  /\ activity_id_bound' = FALSE
  /\ activity_id_truthy' = FALSE
  /\ processed_count' = 0
  /\ n_failed_activity_ids' = 0
  /\ item' = NoItem
  /\ last_reset' = (GPT_COST_THIS_RUN > 0)
  /\ UNCHANGED <<storeVars, today, guardVars, cur, attempt, verdict, via,
                 reqs_in_call, sent_today>>
  /\ last_save' = NoSave
  /\ UNCHANGED fetchVars
  /\ UNCHANGED callVars
  /\ UNCHANGED monitorVars

\* scraper_linkedin.main: reset the run's cost, fetch n posts, and enter
\* process_posts_batch unless the fetch came back empty.
main(n) ==
  /\ pc = "idle"
  /\ GPT_COST_THIS_RUN' = reset_run_cost
  /\ run_exceeded' = FALSE
  /\ remaining' = n
  /\ pc' = LoopNext(n)
  /\ last_reg' = NoCall
  /\ activity_id_bound' = FALSE
  /\ activity_id_truthy' = FALSE
  /\ processed_count' = 0
  /\ n_failed_activity_ids' = 0
  /\ item' = NoItem
  /\ last_reset' = (GPT_COST_THIS_RUN > 0)
  /\ UNCHANGED <<storeVars, today, GPT_FAILURE_COUNT,
                 GPT_CIRCUIT_BREAKER_ACTIVE, GPT_DAILY_CALL_COUNT,
                 GPT_LAST_RESET_DATE, cur, attempt, verdict, via,
                 reqs_in_call, sent_today>>
  /\ last_save' = NoSave
  /\ UNCHANGED fetchVars
  /\ UNCHANGED callVars
  /\ UNCHANGED monitorVars

\* One iteration of the loop of process_posts_batch for an item that is a
\* dict, up to the call of analyze_lead_with_gpt: resolve the id, register
\* it, validate, pre-filter.  An exception is caught by the loop's handler.
ProcessPost(post_data) ==
  /\ pc = "loop"
  /\ remaining > 0
  /\ remaining' = remaining - 1
  /\ last_reset' = FALSE
  /\ LET url == IF post_data.post_url # NoUrl THEN post_data.post_url
                                               ELSE post_data.url
         derived == Falsy(post_data.activity_id)
         raises == derived /\ url = NoUrl
         activity_id == IF ~derived THEN post_data.activity_id
                                    ELSE extract_activity_id(url)
         reg == save_activity_id(activity_ids, "linkedin", activity_id,
                                 url, today)
         Ends(outcome) ==
           /\ pc' = LoopNext(remaining - 1)
           /\ activity_id_bound' = (remaining - 1 > 0)
           /\ activity_id_truthy' = (activity_id # None /\ remaining - 1 > 0)
           /\ item' = outcome
           /\ UNCHANGED cur
         \* the handler: "if activity_id: failed_activity_ids.append(...)"
         Caught ==
           n_failed_activity_ids' =
             n_failed_activity_ids + (IF Falsy(activity_id) THEN 0 ELSE 1)
     IN  IF raises \/ activity_id = None
           THEN \* re.search(None) raises, or no id in the url: next post
                /\ Ends(IF raises THEN "Failed" ELSE "NoId")
                /\ IF raises THEN Caught ELSE UNCHANGED n_failed_activity_ids
                /\ last_reg' = NoCall
                /\ UNCHANGED activity_ids
           ELSE /\ last_reg' = [platform |-> "linkedin",
                                activity_id |-> activity_id,
                                ret |-> reg.ret]
                /\ IF ~reg.ret
                     THEN \* already registered: next post
                          /\ Ends("Duplicate")
                          /\ UNCHANGED n_failed_activity_ids
                          /\ UNCHANGED activity_ids
                     ELSE IF ~validate_post(post_data)
                       THEN \* process_post returned None
                            /\ Ends("Invalid")
                            /\ UNCHANGED n_failed_activity_ids
                            /\ activity_ids' =
                                 mark_activity_scraped(reg.tbl, "linkedin",
                                                       activity_id)
                     ELSE IF post_data.text = NotAString
                       THEN \* .lower() raises in passes_pr_content_filter
                            /\ Ends("Failed")
                            /\ Caught
                            /\ activity_ids' = reg.tbl
                     ELSE IF ~passes_pr_content_filter(post_data)
                       THEN \* process_post returned None
                            /\ Ends("Filtered")
                            /\ UNCHANGED n_failed_activity_ids
                            /\ activity_ids' =
                                 mark_activity_scraped(reg.tbl, "linkedin",
                                                       activity_id)
                       ELSE /\ pc' = "analyze"
                            /\ activity_id_bound' = TRUE
                            /\ activity_id_truthy' = TRUE
                            /\ UNCHANGED n_failed_activity_ids
                            /\ item' = NoItem
                            /\ cur' = [activity_id |-> activity_id,
                                       url |-> url,
                                       lead_data |->
                                         extract_lead_data(post_data)]
                            /\ activity_ids' = reg.tbl
  /\ UNCHANGED <<leads, today, guardVars, attempt, verdict, via,
                 reqs_in_call, sent_today, run_exceeded, processed_count>>
  /\ last_save' = NoSave
  /\ UNCHANGED fetchVars
  /\ UNCHANGED callVars
  /\ UNCHANGED monitorVars

\* One iteration of the loop for an item that is not a dict: post_data.get
\* raises before activity_id is assigned.  The handler reads activity_id:
\* in the first iteration the name is unbound and the handler itself raises,
\* which ends process_posts_batch and main; later it holds the id of an
\* earlier item and the loop goes on.
ProcessMalformed ==
  /\ pc = "loop"
  /\ remaining > 0
  /\ IF activity_id_bound
       THEN /\ remaining' = remaining - 1
            /\ pc' = LoopNext(remaining - 1)
            /\ activity_id_bound' = (remaining - 1 > 0)
            /\ activity_id_truthy' = (activity_id_truthy /\ remaining - 1 > 0)
            /\ n_failed_activity_ids' =
                 n_failed_activity_ids + (IF activity_id_truthy THEN 1 ELSE 0)
            /\ item' = "Failed"
       ELSE /\ remaining' = 0
            /\ pc' = "idle"
            /\ activity_id_bound' = FALSE
            /\ activity_id_truthy' = FALSE
            /\ UNCHANGED n_failed_activity_ids
            /\ item' = "Raised"
  /\ UNCHANGED processed_count
  /\ last_reg' = NoCall
  /\ last_reset' = FALSE
  /\ UNCHANGED <<storeVars, today, guardVars, cur, attempt, verdict, via,
                 reqs_in_call, sent_today, run_exceeded>>
  /\ last_save' = NoSave
  /\ UNCHANGED fetchVars
  /\ UNCHANGED callVars
  /\ UNCHANGED monitorVars

\* The daily-limit return also records a failure.
AnalyzeBegin_daily_block_fails ==
  /\ pc = "analyze"
  /\ reqs_in_call' = 0
  /\ last_reg' = NoCall
  /\ item' = NoItem
  /\ last_reset' = FALSE
  /\ LET cb == check_gpt_circuit_breaker(GPT_FAILURE_COUNT,
                                         GPT_CIRCUIT_BREAKER_ACTIVE)
         dl == check_daily_gpt_limit(GPT_DAILY_CALL_COUNT,
                                     GPT_LAST_RESET_DATE, today)
     IN  IF cb.ret
           THEN /\ GPT_CIRCUIT_BREAKER_ACTIVE' = cb.active
                /\ verdict' = create_fallback_response(22)
                /\ via' = "circuit"
                /\ pc' = "finish"
                /\ UNCHANGED <<GPT_DAILY_CALL_COUNT, GPT_LAST_RESET_DATE,
                               attempt, GPT_FAILURE_COUNT>>
           ELSE /\ GPT_CIRCUIT_BREAKER_ACTIVE' = cb.active
                /\ GPT_DAILY_CALL_COUNT' = dl.count
                /\ GPT_LAST_RESET_DATE' = dl.last
                /\ IF dl.ret
                     THEN /\ verdict' = create_fallback_response(19)
                          /\ via' = "daily"
                          /\ pc' = "finish"
                          /\ GPT_FAILURE_COUNT' =
                               record_gpt_failure(GPT_FAILURE_COUNT)
                          /\ UNCHANGED attempt
                     ELSE /\ attempt' = 0
                          /\ pc' = "attempt"
                          /\ UNCHANGED <<verdict, via, GPT_FAILURE_COUNT>>
  /\ UNCHANGED <<storeVars, today, GPT_COST_THIS_RUN,
                 remaining, activity_id_bound, cur, sent_today,
                 run_exceeded, countVars>>
  /\ last_save' = NoSave
  /\ UNCHANGED fetchVars
  /\ UNCHANGED callVars
  /\ UNCHANGED monitorVars

\* analyze_lead_with_gpt up to the retry loop: the circuit breaker check,
\* then the daily limit check.
AnalyzeBegin ==
  /\ pc = "analyze"
  /\ reqs_in_call' = 0
  /\ last_reg' = NoCall
  /\ item' = NoItem
  /\ last_reset' = FALSE
  /\ LET cb == check_gpt_circuit_breaker(GPT_FAILURE_COUNT,
                                         GPT_CIRCUIT_BREAKER_ACTIVE)
         dl == check_daily_gpt_limit(GPT_DAILY_CALL_COUNT,
                                     GPT_LAST_RESET_DATE, today)
     IN  IF cb.ret
           THEN /\ GPT_CIRCUIT_BREAKER_ACTIVE' = cb.active
                /\ verdict' = create_fallback_response(22)
                /\ via' = "circuit"
                /\ pc' = "finish"
                /\ UNCHANGED <<GPT_DAILY_CALL_COUNT, GPT_LAST_RESET_DATE,
                               attempt>>
           ELSE /\ GPT_CIRCUIT_BREAKER_ACTIVE' = cb.active
                /\ GPT_DAILY_CALL_COUNT' = dl.count
                /\ GPT_LAST_RESET_DATE' = dl.last
                /\ IF dl.ret
                     THEN /\ verdict' = create_fallback_response(19)
                          /\ via' = "daily"
                          /\ pc' = "finish"
                          /\ UNCHANGED attempt
                     ELSE /\ attempt' = 0
                          /\ pc' = "attempt"
                          /\ UNCHANGED <<verdict, via>>
  /\ UNCHANGED <<storeVars, today, GPT_FAILURE_COUNT, GPT_COST_THIS_RUN,
                 remaining, activity_id_bound, cur, sent_today,
                 run_exceeded, countVars>>
  /\ last_save' = NoSave
  /\ UNCHANGED fetchVars
  /\ UNCHANGED callVars
  /\ UNCHANGED monitorVars

\* A rate-limit failure does not consume an attempt.
NextAttempt_rate_limit_free(att, kind) ==
  IF kind = "rate_limit" THEN att ELSE att + 1

\* The retry loop "for attempt in range(max_retries)": the value of the loop
\* variable after a failed attempt of the given kind.
NextAttempt(att, kind) == att + 1

\* Saturating counter of the requests sent on one date.
SentCap == GPT_DAILY_CALL_LIMIT + 1
BumpSent(n) == IF n < SentCap THEN n + 1 ELSE n

\* One pass of the retry loop of analyze_lead_with_gpt: send the request,
\* parse and validate the answer, track its cost, record the outcome.
\* kind is "json" when the service answered with a JSON object (response),
\* call_cost is the cost of the tokens the answer reports.
Attempt(kind, response, call_cost) ==
  /\ pc = "attempt"
  /\ reqs_in_call' = reqs_in_call + 1
  /\ sent_today' = BumpSent(sent_today)
  /\ last_reg' = NoCall
  /\ item' = NoItem
  /\ last_reset' = FALSE
  /\ LET valid == kind = "json" /\ validate_gpt_response(response)
         tc == track_gpt_cost(GPT_COST_THIS_RUN, call_cost)
         rs == reset_gpt_circuit_breaker
     IN  /\ GPT_COST_THIS_RUN' = IF valid THEN tc.cost ELSE GPT_COST_THIS_RUN
         /\ run_exceeded' = (run_exceeded \/ (valid /\ tc.raised))
         /\ IF valid /\ ~tc.raised
              THEN \* success: reset the breaker, count the call, return
                   /\ GPT_FAILURE_COUNT' = rs.count
                   /\ GPT_CIRCUIT_BREAKER_ACTIVE' = rs.active
                   /\ GPT_DAILY_CALL_COUNT' =
                        record_gpt_call(GPT_DAILY_CALL_COUNT)
                   /\ verdict' = response
                   /\ via' = "gpt"
                   /\ pc' = "finish"
                   /\ UNCHANGED attempt
              ELSE \* either except branch: record the failure
                   /\ GPT_FAILURE_COUNT' =
                        record_gpt_failure(GPT_FAILURE_COUNT)
                   /\ UNCHANGED <<GPT_CIRCUIT_BREAKER_ACTIVE,
                                  GPT_DAILY_CALL_COUNT>>
                   /\ IF attempt = max_retries - 1
                        THEN /\ verdict' = create_fallback_response(30)
                             /\ via' = "exhausted"
                             /\ pc' = "finish"
                             /\ UNCHANGED attempt
                        ELSE /\ attempt' = NextAttempt(attempt, kind)
                             /\ UNCHANGED <<verdict, via, pc>>
  /\ UNCHANGED <<storeVars, today, GPT_LAST_RESET_DATE, remaining,
                 activity_id_bound, cur, countVars>>
  /\ last_save' = NoSave
  /\ UNCHANGED fetchVars
  /\ UNCHANGED callVars
  /\ UNCHANGED monitorVars

\* The rest of the iteration once analyze_lead_with_gpt has returned:
\* process_post drops a non-lead; otherwise the lead is enriched and saved
\* under lead_data["activity_id"], whatever save_lead returns; either way
\* the activity is marked scraped under the id it was registered with.
FinishPost ==
  /\ pc = "finish"
  /\ IF verdict.is_genuine_lead # "True"
       THEN /\ UNCHANGED leads
            /\ last_save' = NoSave
       ELSE LET sl == save_lead(leads, "linkedin",
                                cur.lead_data.activity_id,
                                cur.lead_data.post_url, today)
            IN  /\ leads' = sl.tbl
                /\ last_save' = [platform |-> "linkedin",
                                 post_id |-> cur.lead_data.activity_id,
                                 ret |-> sl.ret]
  /\ activity_ids' = mark_activity_scraped(activity_ids, "linkedin",
                                           cur.activity_id)
  /\ processed_count' = processed_count +
       (IF verdict.is_genuine_lead # "True" THEN 0 ELSE 1)
  /\ UNCHANGED n_failed_activity_ids
  /\ pc' = LoopNext(remaining)
  /\ activity_id_bound' = (remaining > 0)
  /\ activity_id_truthy' = (remaining > 0)
  /\ item' = IF verdict.is_genuine_lead # "True" THEN "Rejected"
                                                  ELSE "Qualified"
  /\ cur' = NoPost
  /\ verdict' = NoVerdict
  /\ via' = "none"
  /\ last_reg' = NoCall
  /\ last_reset' = FALSE
  /\ UNCHANGED <<today, guardVars, remaining, attempt, reqs_in_call,
                 sent_today, run_exceeded>>
  /\ UNCHANGED fetchVars
  /\ UNCHANGED callVars
  /\ UNCHANGED monitorVars

\* The process ends in the middle of whatever it is doing (kill, power loss,
\* an uncaught exception) and is started again: module globals are back at
\* their initial values, the database file is as the last commit left it.
Terminate ==
  /\ GPT_FAILURE_COUNT' = 0
  /\ GPT_CIRCUIT_BREAKER_ACTIVE' = FALSE
  /\ GPT_DAILY_CALL_COUNT' = 0
  /\ GPT_LAST_RESET_DATE' = 0
  /\ GPT_COST_THIS_RUN' = 0
  /\ pc' = "idle"
  /\ remaining' = 0
  /\ activity_id_bound' = FALSE
  /\ activity_id_truthy' = FALSE
  /\ processed_count' = 0
  /\ n_failed_activity_ids' = 0
  /\ cur' = NoPost
  /\ attempt' = 0
  /\ verdict' = NoVerdict
  /\ via' = "none"
  /\ reqs_in_call' = 0
  /\ run_exceeded' = FALSE
  /\ last_reg' = NoCall
  /\ item' = "Terminated"
  /\ last_reset' = FALSE
  /\ UNCHANGED <<storeVars, today, sent_today>>
  /\ last_save' = NoSave
  /\ UNCHANGED fetchVars
  /\ UNCHANGED callVars
  /\ UNCHANGED monitorVars

\* One iteration of the loop of scraper_twitter.main for a tweet with an id.
TwitterTweet(tweet_id, post_url) ==
  /\ LET reg == save_activity_id(activity_ids, "twitter", tweet_id,
                                 post_url, today)
     IN  /\ last_reg' = [platform |-> "twitter", activity_id |-> tweet_id,
                         ret |-> reg.ret]
         /\ IF ~reg.ret
              THEN /\ UNCHANGED storeVars
                   /\ last_save' = NoSave
              ELSE LET sl == save_lead(leads, "twitter", tweet_id,
                                       post_url, today)
                   IN  /\ leads' = sl.tbl
                       /\ last_save' = [platform |-> "twitter",
                                        post_id |-> tweet_id,
                                        ret |-> sl.ret]
                       /\ activity_ids' = mark_activity_scraped(reg.tbl,
                                            "twitter", tweet_id)
  /\ item' = NoItem
  /\ last_reset' = FALSE
  /\ UNCHANGED <<today, guardVars, pc, remaining, activity_id_bound, cur,
                 attempt, verdict, via, reqs_in_call, sent_today,
                 run_exceeded>>
  /\ LocalsOutsideRun
  /\ UNCHANGED fetchVars
  /\ UNCHANGED callVars
  /\ UNCHANGED monitorVars

\* One iteration of the loop of scraper_bluesky.main.
BlueskyPost(post_id, post_url) ==
  /\ LET sl == save_lead(leads, "bluesky", post_id, post_url, today)
     IN  /\ leads' = sl.tbl
         /\ last_save' = [platform |-> "bluesky", post_id |-> post_id,
                          ret |-> sl.ret]
  /\ last_reg' = NoCall
  /\ item' = NoItem
  /\ last_reset' = FALSE
  /\ LocalsOutsideRun
  /\ UNCHANGED <<activity_ids, today, guardVars, pc, remaining,
                 activity_id_bound, cur, attempt, verdict, via,
                 reqs_in_call, sent_today, run_exceeded>>
  /\ UNCHANGED fetchVars
  /\ UNCHANGED callVars
  /\ UNCHANGED monitorVars

\* The dashboard's Dismiss button on the card of a LinkedIn lead; the page
\* may be older than the row's last change.
DismissLead(lead_id) ==
  /\ \E r \in leads : r.id = lead_id /\ r.platform = "linkedin"
  /\ leads' = dismiss_lead(leads, lead_id).tbl
  /\ last_reg' = NoCall
  /\ item' = NoItem
  /\ last_reset' = FALSE
  /\ LocalsOutsideRun
  /\ UNCHANGED <<activity_ids, today, guardVars, pc, remaining,
                 activity_id_bound, cur, attempt, verdict, via,
                 reqs_in_call, sent_today, run_exceeded>>
  /\ last_save' = NoSave
  /\ UNCHANGED fetchVars
  /\ UNCHANGED callVars
  /\ UNCHANGED monitorVars

\* A caller of database.save_activity_id.
SaveActivityId(platform, activity_id, original_url) ==
  /\ LET reg == save_activity_id(activity_ids, platform, activity_id,
                                 original_url, today)
     IN  /\ activity_ids' = reg.tbl
         /\ last_reg' = [platform |-> platform, activity_id |-> activity_id,
                         ret |-> reg.ret]
  /\ item' = NoItem
  /\ last_reset' = FALSE
  /\ last_save' = NoSave
  /\ LocalsOutsideRun
  /\ UNCHANGED <<leads, today, guardVars, pc, remaining,
                 activity_id_bound, cur, attempt, verdict, via, reqs_in_call,
                 sent_today, run_exceeded>>
  /\ UNCHANGED fetchVars
  /\ UNCHANGED callVars
  /\ UNCHANGED monitorVars

\* A caller of database.mark_activity_scraped.
MarkActivityScraped(platform, activity_id) ==
  /\ activity_ids' = mark_activity_scraped(activity_ids, platform,
                                           activity_id)
  /\ last_reg' = NoCall
  /\ item' = NoItem
  /\ last_reset' = FALSE
  /\ last_save' = NoSave
  /\ LocalsOutsideRun
  /\ UNCHANGED <<leads, today, guardVars, pc, remaining,
                 activity_id_bound, cur, attempt, verdict, via, reqs_in_call,
                 sent_today, run_exceeded>>
  /\ UNCHANGED fetchVars
  /\ UNCHANGED callVars
  /\ UNCHANGED monitorVars

\* Midnight passes.
DateAdvance ==
  /\ today < MaxDate
  /\ today' = today + 1
  /\ sent_today' = 0
  /\ last_reg' = NoCall
  /\ item' = NoItem
  /\ last_reset' = FALSE
  /\ LocalsOutsideRun
  /\ UNCHANGED <<storeVars, guardVars, pc, remaining, activity_id_bound,
                 cur, attempt, verdict, via, reqs_in_call,
                 run_exceeded>>
  /\ last_save' = NoSave
  /\ UNCHANGED fetchVars
  /\ UNCHANGED callVars
  /\ UNCHANGED monitorVars

\* ------------------------------- scraper_linkedin.py: PhantomBuster fetch
\* Table processed_containers, keyed by container id: whether the id is in
\* it, and the table after recording the id (recording twice changes
\* nothing).
is_container_processed(tbl, container_id) == container_id \in tbl

save_processed_container(tbl, container_id) == tbl \cup {container_id}

\* client.get_all_containers: the finished containers, latest first, cut to
\* limit.
get_all_containers(cs, limit) ==
  SubSeq(cs, 1, IF Len(cs) < limit THEN Len(cs) ELSE limit)

\* Always the latest container, processed or not.
container_to_fetch_latest(cs, tbl) == cs[1]

\* The first container of the list that is not recorded as processed; if
\* every one is recorded, the first of the list anyway.
container_to_fetch(cs, tbl) ==
  IF \E k \in 1 .. Len(cs) : ~is_container_processed(tbl, cs[k])
    THEN cs[CHOOSE k \in 1 .. Len(cs) :
              /\ ~is_container_processed(tbl, cs[k])
              /\ \A j \in 1 .. k - 1 : is_container_processed(tbl, cs[j])]
    ELSE cs[1]

\* get_phantombuster_linkedin_posts starts its loop over n keywords.
FetchStart(n) ==
  /\ pc = "idle"
  /\ keywords_left = 0
  /\ keywords_left' = n
  /\ last_fetch' = NoFetch
  /\ UNCHANGED <<containers, processed_containers>>
  /\ UNCHANGED <<storeVars, today, guardVars, runVars, histVars>>
  /\ UNCHANGED callVars
  /\ UNCHANGED monitorVars

\* One pass of the keyword loop when the launch reports "already
\* retrieved": list the containers, pick one, fetch it, record it.
FetchCached ==
  /\ keywords_left > 0
  /\ keywords_left' = keywords_left - 1
  /\ LET cs == get_all_containers(containers, containers_limit)
     IN  IF cs = <<>>
           THEN /\ last_fetch' = NoFetch
                /\ UNCHANGED processed_containers
           ELSE LET container_id == container_to_fetch(cs,
                                                       processed_containers)
                IN  /\ last_fetch' =
                         [container_id |-> container_id,
                          processed |->
                            is_container_processed(processed_containers,
                                                   container_id)]
                    /\ processed_containers' =
                         save_processed_container(processed_containers,
                                                  container_id)
  /\ UNCHANGED containers
  /\ UNCHANGED <<storeVars, today, guardVars, runVars, histVars>>
  /\ UNCHANGED callVars
  /\ UNCHANGED monitorVars

\* One pass of the keyword loop when the launch starts the agent: a new
\* container runs to its end, is fetched and recorded.
FetchFresh ==
  /\ keywords_left > 0
  /\ Len(containers) < MaxContainers
  /\ keywords_left' = keywords_left - 1
  /\ LET container_id == Len(containers) + 1
     IN  /\ containers' = <<container_id>> \o containers
         /\ processed_containers' =
              save_processed_container(processed_containers, container_id)
  /\ last_fetch' = NoFetch
  /\ UNCHANGED <<storeVars, today, guardVars, runVars, histVars>>
  /\ UNCHANGED callVars
  /\ UNCHANGED monitorVars

\* The agent finishes a run that this program did not launch (a scheduled
\* or manual launch on PhantomBuster).
AgentRun ==
  /\ Len(containers) < MaxContainers
  /\ containers' = <<Len(containers) + 1>> \o containers
  /\ last_fetch' = NoFetch
  /\ UNCHANGED <<processed_containers, keywords_left>>
  /\ UNCHANGED <<storeVars, today, guardVars, runVars, histVars>>
  /\ UNCHANGED callVars
  /\ UNCHANGED monitorVars

\* ------------------------------------------------------- specifications
NoResponse == NoVerdict

\* The canonical permalink of a post.
UrlOf(id) == [posts |-> id, digits |-> id, tag |-> 1]

\* Batches of the guard specification: complete posts with an explicit id
\* and their canonical permalink, relevant or not, and one post from which
\* no id can be read.
GuardPosts ==
  { p \in PostsOf(Ids, {1}) :
      \/ p.activity_id # None /\ p.post_url = UrlOf(p.activity_id)
           /\ p.text # None /\ p.author_name = "n"
      \/ p.activity_id = None /\ p.post_url = NoUrl /\ p.url = NoUrl
           /\ p.text = "plain" /\ p.author_name = "n" }

\* The classifier client and its guard under LinkedIn runs.  The well-formed
\* answers are rejections: no function of the guard or of the retry loop
\* reads the lead flag of a validated answer, and the leads here are the
\* ones the fallback verdict makes.
Next ==
  \/ \E n \in 0 .. MaxBatch : main(n)
  \/ \E p \in GuardPosts : ProcessPost(p)
  \/ AnalyzeBegin
  \/ \E k \in ErrorKinds : Attempt(k, NoResponse, 0)
  \/ \E r \in InvalidResponses : Attempt("json", r, 0)
  \/ \E c \in CallCosts : Attempt("json", GoodResponse("False"), c)
  \/ FinishPost
  \/ DateAdvance

Spec == Init /\ [][Next]_vars

\* The store under its three writers: LinkedIn runs over posts with any
\* permalink, the Twitter loop and the BlueSky loop.  The classifier is
\* reduced to well-formed answers of cost 0 (and to the calls the daily
\* limit blocks): the store sees of a verdict only its lead flag.
StoreIds == {"a", "b"}
\* A post without an id field or without post_url fails validate_post
\* whatever its text is: such posts come with one text.  A post with an id
\* field has its canonical permalink under post_url or no permalink; a post
\* without an id field has its permalink, if any, under url.
StorePosts ==
  { p \in PostsOf(StoreIds, {1}) :
      /\ p.author_name = "n"
      /\ p.activity_id = None \/ p.post_url = NoUrl => p.text = "plain"
      /\ p.activity_id # None => p.url = NoUrl
      /\ p.activity_id = None => p.post_url = NoUrl }
FeedIds == {"a"}
FeedUrl == [posts |-> None, digits |-> None, tag |-> 1]

NextStore ==
  \/ \E n \in 0 .. MaxBatch : main(n)
  \/ \E p \in StorePosts : ProcessPost(p)
  \/ AnalyzeBegin
  \/ \E r \in ValidResponses : Attempt("json", r, 0)
  \/ FinishPost
  \/ \E i \in FeedIds : TwitterTweet(i, FeedUrl)
  \/ \E i \in FeedIds : BlueskyPost(i, FeedUrl)
  \/ DateAdvance

SpecStore == Init /\ [][NextStore]_vars

\* The batch loop under everything a batch can hold and everything that can
\* end an item early: posts with an explicit id, posts whose id field is
\* missing or empty and whose permalink carries the id, posts with no id
\* anywhere, texts that are missing, irrelevant, relevant or not a string,
\* items that are not dicts, the end of the process, and a tweet that has
\* the id of a LinkedIn post.
BatchIds == {"a", "b"}
BatchPosts ==
  { p \in [activity_id : BatchIds \cup {None, Empty},
           post_url : {UrlOf(i) : i \in BatchIds} \cup {FeedUrl, NoUrl},
           url : {NoUrl},
           text : Texts \cup {NotAString}, author_name : {"n"}] :
      /\ p.activity_id \in BatchIds => p.post_url = UrlOf(p.activity_id)
      /\ Falsy(p.activity_id) /\ p.post_url \notin {UrlOf(i) : i \in BatchIds}
            => p.text = "plain" /\ p.activity_id = None }

NextBatch ==
  \/ \E n \in 0 .. MaxBatch : main(n)
  \/ \E p \in BatchPosts : ProcessPost(p)
  \/ ProcessMalformed
  \/ AnalyzeBegin
  \/ \E r \in ValidResponses : Attempt("json", r, 0)
  \/ FinishPost
  \/ Terminate
  \/ \E i \in FeedIds : TwitterTweet(i, FeedUrl)

SpecBatch == Init /\ [][NextBatch]_vars

\* The leads table under its writers and the dashboard: LinkedIn runs over
\* relevant posts (with an id field that is set, empty or missing), the
\* BlueSky loop, and the Dismiss button.
LeadPosts == { p \in BatchPosts : p.text = "need a pr agency" }

\* Row ids of the leads these writers can store: one per post id.
LeadIds == 1 .. Cardinality(BatchIds \cup {Empty})

NextLeads ==
  \/ \E n \in 0 .. MaxBatch : main(n)
  \/ \E p \in LeadPosts : ProcessPost(p)
  \/ AnalyzeBegin
  \/ \E r \in ValidResponses : Attempt("json", r, 0)
  \/ FinishPost
  \/ \E i \in FeedIds : BlueskyPost(i, FeedUrl)
  \/ \E i \in LeadIds : DismissLead(i)
  \/ DateAdvance

SpecLeads == Init /\ [][NextLeads]_vars

\* The activity table under any sequence of calls of its two writers.
ActivityPlatforms == {"linkedin", "twitter"}
ActivityKeyIds == {"a", "b"}

NextActivity ==
  \/ \E p \in ActivityPlatforms, i \in ActivityKeyIds :
       SaveActivityId(p, i, FeedUrl)
  \/ \E p \in ActivityPlatforms, i \in ActivityKeyIds :
       MarkActivityScraped(p, i)
  \/ DateAdvance

SpecActivity == Init /\ [][NextActivity]_vars

\* Runs over one batch of three complete, relevant posts, the second of
\* which has no permalink; the id of the first may have been seen before.
SummaryPost(id, post_url) ==
  [activity_id |-> id, post_url |-> post_url, url |-> NoUrl,
   text |-> "need a pr agency", author_name |-> "n"]
SummaryBatch ==
  << SummaryPost("a", UrlOf("a")), SummaryPost("b", NoUrl),
     SummaryPost("c", UrlOf("c")) >>

\* "for i, post_data in enumerate(posts)": the loop takes the items in order.
ProcessItem(i) ==
  /\ i = Len(SummaryBatch) - remaining + 1
  /\ ProcessPost(SummaryBatch[i])

NextSummary ==
  \/ SaveActivityId("linkedin", "a", UrlOf("a"))
  \/ main(Len(SummaryBatch))
  \/ \E i \in 1 .. Len(SummaryBatch) : ProcessItem(i)
  \/ AnalyzeBegin
  \/ \E r \in ValidResponses : Attempt("json", r, 0)
  \/ FinishPost
  \/ DateAdvance

SpecSummary == Init /\ [][NextSummary]_vars

\* ------------------------------------------------- the keyword matcher
\* Longest post content drawn.
MaxContentLen == 2
\* Longest configured keyword list and role list drawn.
MaxTerms == 2

\* The strings of at most n characters of an alphabet.
StrsOf(chars, n) == UNION { [1 .. k -> chars] : k \in 0 .. n }
\* The lists of at most n terms.
ListsOf(terms, n) == UNION { [1 .. k -> terms] : k \in 0 .. n }

MatchChars == {"p", "P", "c"}
KeywordTerms == { <<"\"">>, <<"p">>, <<"\"", "P", "c", "\"">> }
RoleTerms == { <<"c">>, <<"C", "p">> }
CategoryTerms == { <<>>, <<"P">>, <<"p", "c">> }
AuthorTitles == { NoStr, <<>>, <<"c">>, <<"P", "c">> }

\* The example of the documentation.
ExampleContent ==
  <<"L", "o", "o", "k", "i", "n", "g", " ", "f", "o", "r", " ", "a",
      " ", "P", "R", " ", "a", "g", "e", "n", "c", "y", " ", "f",
      "o", "r", " ", "o", "u", "r", " ", "B", "e", "a", "u", "t",
      "y", " ", "b", "r", "a", "n", "d">>
ExampleConfig ==
  [keywords |-> << <<"p", "r", " ", "a", "g", "e", "n", "c", "y">> >>,
   job_titles |-> << <<"C", "M", "O">> >>,
   industries |-> << <<"B", "e", "a", "u", "t", "y">> >>]

MatchInputs ==
  [fn : {"detect_matched_filters"},
   post_content : StrsOf(MatchChars, MaxContentLen),
   author_title : AuthorTitles,
   config : [keywords : ListsOf(KeywordTerms, MaxTerms),
             job_titles : ListsOf(RoleTerms, MaxTerms),
             industries : ListsOf(CategoryTerms, 1)]]
  \cup
  [fn : {"detect_matched_filters"}, post_content : {ExampleContent},
   author_title : {NoStr, <<"C", "M", "O">>}, config : {ExampleConfig}]

\* enrich_lead is about to call detect_matched_filters.
InitMatch ==
  /\ InitProgram
  /\ interval_hours = 1
  /\ call_args \in MatchInputs
  /\ call_result = NoResult

\* The call of detect_matched_filters.
DetectMatchedFilters ==
  /\ call_args.fn = "detect_matched_filters"
  /\ call_result = NoResult
  /\ call_result' =
       [returned |-> TRUE,
        value |-> detect_matched_filters(call_args.post_content,
                                         call_args.author_title,
                                         call_args.config)]
  /\ UNCHANGED call_args
  /\ UNCHANGED <<storeVars, today, guardVars, runVars, histVars, fetchVars>>
  /\ UNCHANGED monitorVars

NextMatch == DetectMatchedFilters

SpecMatch == InitMatch /\ [][NextMatch]_vars

\* --------------------------------------------------- company extraction
\* Longest author title drawn.
MaxTitleLen == 4
TitleChars == {"a", "t", "T", " ", "\n", "@", "|"}

\* The examples of the documentation.
ExampleAtTitle ==
  <<"C", "M", "O", " ", "a", "t", " ", "A", "c", "m", "e", " ", "C", "o",
    "r", "p">>
ExampleSignTitle ==
  <<"M", "a", "r", "k", "e", "t", "i", "n", "g", " ", "D", "i", "r", "e",
    "c", "t", "o", "r", " ", "@", " ", "B", "e", "a", "u", "t", "y", " ",
    "C", "o">>
ExamplePipeTitle ==
  <<"V", "P", " ", "M", "a", "r", "k", "e", "t", "i", "n", "g", " ", "|",
    " ", "F", "o", "o", "d", " ", "I", "n", "c">>
ExampleTitles == {ExampleAtTitle, ExampleSignTitle, ExamplePipeTitle}

CompanyInputs ==
  [fn : {"extract_company_from_title"},
   title : StrsOf(TitleChars, MaxTitleLen)
             \cup ExampleTitles \cup {NoStr, NotAStr}]

\* enrich_lead_data is about to call extract_company_from_title.
InitCompany ==
  /\ InitProgram
  /\ interval_hours = 1
  /\ call_args \in CompanyInputs
  /\ call_result = NoResult

\* The call of extract_company_from_title.
ExtractCompany ==
  /\ call_args.fn = "extract_company_from_title"
  /\ call_result = NoResult
  /\ call_result' =
       [returned |-> TRUE,
        value |-> extract_company_from_title(call_args.title)]
  /\ UNCHANGED call_args
  /\ UNCHANGED <<storeVars, today, guardVars, runVars, histVars, fetchVars>>
  /\ UNCHANGED monitorVars

NextCompany == ExtractCompany

SpecCompany == InitCompany /\ [][NextCompany]_vars

\* ------------------------------------------------ response validation
\* Largest number of fields in which a drawn response differs from a
\* well-formed one.
MaxWrongFields == 2

\* The values a field of a JSON answer takes: for each check of
\* validate_gpt_response the values at and around its limits.
ScoreValues ==
  [score_type : {"int"}, confidence_score : {-1, 0, 90, 100, 101}]
    \cup [score_type : {"float", "str"}, confidence_score : {90}]
    \cup [score_type : {"bool"}, confidence_score : {1}]
ReasoningValues ==
  [reasoning_type : {"str"}, reasoning_len : {9, 10, 11}]
    \cup [reasoning_type : {"list"}, reasoning_len : {10}]

\* The number of fields in which the response differs from a
\* well-formed one.
WrongFields(r) ==
  LET good == GoodResponse("True")
  IN  Cardinality(
        {"flag" : x \in {r.is_genuine_lead} \ {good.is_genuine_lead}}
        \cup {"score" : x \in {<<r.score_type, r.confidence_score>>}
                             \ {<<good.score_type, good.confidence_score>>}}
        \cup {"quality" : x \in {r.lead_quality} \ {good.lead_quality}}
        \cup {"hiring" : x \in {r.hiring_type} \ {good.hiring_type}}
        \cup {"reasoning" : x \in {<<r.reasoning_type, r.reasoning_len>>}
                                 \ {<<good.reasoning_type,
                                      good.reasoning_len>>}}
        \cup {"missing" : x \in r.missing})

ResponseInputs ==
  { r \in [is_genuine_lead : {"True", "False", "maybe"},
           confidence_score : {-1, 0, 1, 90, 100, 101},
           score_type : {"int", "float", "bool", "str"},
           lead_quality : {"hot", "warm", "cold", "lukewarm"},
           hiring_type : {"agency", "in-house", "unclear", "freelance"},
           reasoning_len : {9, 10, 11},
           reasoning_type : {"str", "list"},
           red_flags : {<<>>},
           missing : {{}} \cup { {f} : f \in required_fields }] :
      /\ [score_type |-> r.score_type,
          confidence_score |-> r.confidence_score] \in ScoreValues
      /\ [reasoning_type |-> r.reasoning_type,
          reasoning_len |-> r.reasoning_len] \in ReasoningValues
      /\ WrongFields(r) <= MaxWrongFields }

\* The classifier service answers every request of the run with the
\* same JSON object.
InitValidate ==
  /\ InitProgram
  /\ interval_hours = 1
  /\ call_args \in [fn : {"validate_gpt_response"},
                     response : ResponseInputs]
  /\ call_result = NoResult

ValidateIds == {"a", "b"}

NextValidate ==
  \/ \E n \in 1 .. Cardinality(ValidateIds) : main(n)
  \/ \E id \in ValidateIds : ProcessPost(SummaryPost(id, UrlOf(id)))
  \/ AnalyzeBegin
  \/ \E c \in CallCosts : Attempt("json", call_args.response, c)
  \/ FinishPost

SpecValidate == InitValidate /\ [][NextValidate]_vars

\* ---------------------------------------------------------- the monitor
ProgramVars == <<storeVars, today, guardVars, runVars, histVars, fetchVars,
                 callVars>>

\* The monitoring section of config.json as the monitor reads it: a
\* missing section or entry reads as paused.
Config == [active |-> monitoring_active, interval_hours |-> interval_hours]

\* stop_monitoring that writes a fresh monitoring section.
stop_monitoring_fresh(config) == [active |-> FALSE, interval_hours |-> 1]

\* load_config, set monitoring.active, save_config.
start_monitoring(config) == [config EXCEPT !.active = TRUE]
stop_monitoring(config) == [config EXCEPT !.active = FALSE]

\* The thread is between two invocations of run_scraper_job.
Free(t) == job[t] \in {"idle", "skipped"}
Alive(l) == job[l] \notin {"unstarted", "ended"}

\* The "Start Monitoring" button, first half: start_monitoring.  The
\* model has MaxLoops threads to give out.
StartMonitoring ==
  /\ Free(0)
  /\ scheduler_running \/ \E l \in LoopThreads : job[l] = "unstarted"
  /\ monitoring_active' = start_monitoring(Config).active
  /\ interval_hours' = start_monitoring(Config).interval_hours
  /\ job' = [job EXCEPT ![0] = "starting"]
  /\ UNCHANGED <<scheduler_running, is_running, last_run_status,
                 last_run_time, next_run_time, stale>>
  /\ UNCHANGED ProgramVars

\* The button's second half, start_background_scheduler: under the lock,
\* return if a scheduler runs; else schedule the job, set next_run_time and
\* the flag, and start a new run_scheduler_loop thread.
StartBackgroundScheduler ==
  /\ job[0] = "starting"
  /\ IF scheduler_running
       THEN /\ job' = [job EXCEPT ![0] = "idle"]
            /\ UNCHANGED <<scheduler_running, next_run_time>>
       ELSE LET l == CHOOSE l \in LoopThreads : job[l] = "unstarted"
            IN  /\ job' = [job EXCEPT ![0] = "idle", ![l] = "idle"]
                /\ scheduler_running' = TRUE
                /\ next_run_time' = last_run_time + interval_hours
  /\ UNCHANGED <<monitoring_active, interval_hours, is_running,
                 last_run_status, last_run_time, stale>>
  /\ UNCHANGED ProgramVars

\* The "Stop Monitoring" button, first half: stop_monitoring.
StopMonitoring ==
  /\ Free(0)
  /\ monitoring_active' = stop_monitoring(Config).active
  /\ interval_hours' = stop_monitoring(Config).interval_hours
  /\ job' = [job EXCEPT ![0] = "stopping"]
  /\ UNCHANGED <<scheduler_running, is_running, last_run_status,
                 last_run_time, next_run_time, stale>>
  /\ UNCHANGED ProgramVars

\* The button's second half, stop_background_scheduler: clear the flag
\* under the lock; the loop thread is not joined.
StopBackgroundScheduler ==
  /\ job[0] = "stopping"
  /\ scheduler_running' = FALSE
  /\ stale' = {l \in LoopThreads : Alive(l)}
  /\ job' = [job EXCEPT ![0] = "idle"]
  /\ UNCHANGED <<monitoring_active, interval_hours, is_running,
                 last_run_status, last_run_time, next_run_time>>
  /\ UNCHANGED ProgramVars

\* A loop thread wakes from time.sleep(60) and reads the flag under the
\* lock: it breaks when the flag is clear, else it calls
\* schedule.run_pending(), here with no job due, and sleeps again.
run_scheduler_loop(l) ==
  /\ Free(l)
  /\ l \in stale \/ ~scheduler_running
  /\ job' = IF scheduler_running THEN job
                                 ELSE [job EXCEPT ![l] = "ended"]
  /\ stale' = stale \ {l}
  /\ UNCHANGED <<monitoring_active, interval_hours, scheduler_running,
                 is_running, last_run_status, last_run_time,
                 next_run_time>>
  /\ UNCHANGED ProgramVars

\* A thread enters run_scraper_job while monitoring is active: a loop
\* thread that read the flag set, from schedule.run_pending(), or the
\* script thread from the "Run Once" button (run_once).  The time is
\* counted in job starts.
RunScraperJob(t) ==
  /\ Free(t)
  /\ t \in LoopThreads => scheduler_running
  /\ monitoring_active
  /\ last_run_time < MaxRuns
  /\ is_running' = TRUE
  /\ last_run_time' = last_run_time + 1
  /\ job' = [job EXCEPT ![t] = "running"]
  /\ stale' = stale \ {t}
  /\ UNCHANGED <<monitoring_active, interval_hours, scheduler_running,
                 last_run_status, next_run_time>>
  /\ UNCHANGED ProgramVars

\* A thread enters run_scraper_job while monitoring is paused: the job
\* returns at once.
SkipScraperJob(t) ==
  /\ Free(t)
  /\ t \in LoopThreads => scheduler_running
  /\ ~monitoring_active
  /\ job' = [job EXCEPT ![t] = "skipped"]
  /\ stale' = stale \ {t}
  /\ UNCHANGED <<monitoring_active, interval_hours, scheduler_running,
                 is_running, last_run_status, last_run_time,
                 next_run_time>>
  /\ UNCHANGED ProgramVars

\* One iteration of the tweet loop of the scraper the job runs.
ScrapeTweet(t, tweet_id) ==
  /\ job[t] = "running"
  /\ TwitterTweet(tweet_id, UrlOf(tweet_id))

\* The job ends: run_twitter_scraper has returned or raised; finally.
\* "error" stands for the status "error: " followed by the message.
JobEnds(t, status) ==
  /\ job[t] = "running"
  /\ last_run_status' = status
  /\ next_run_time' = IF status = "success"
                        THEN last_run_time + interval_hours
                        ELSE next_run_time
  /\ is_running' = FALSE
  /\ job' = [job EXCEPT ![t] = "idle"]
  /\ UNCHANGED <<monitoring_active, interval_hours, scheduler_running,
                 last_run_time, stale>>
  /\ UNCHANGED ProgramVars

\* The ids of the tweets the search returns.
TweetIds == {"a", "b"}

InitMonitor ==
  /\ InitProgram
  /\ interval_hours \in 1 .. MaxInterval
  /\ call_args = NoArgs
  /\ call_result = NoResult

NextMonitor ==
  \/ StartMonitoring
  \/ StartBackgroundScheduler
  \/ StopMonitoring
  \/ StopBackgroundScheduler
  \/ \E l \in LoopThreads : run_scheduler_loop(l)
  \/ \E t \in Threads : RunScraperJob(t)
  \/ \E t \in Threads : SkipScraperJob(t)
  \/ \E t \in Threads, id \in TweetIds : ScrapeTweet(t, id)
  \/ \E t \in Threads, status \in {"success", "error"} : JobEnds(t, status)

SpecMonitor == InitMonitor /\ [][NextMonitor]_vars

\* ------------------------------------------------------------ fail-open
\* Relevant posts with an id field, and relevant posts as the parser
\* builds them when it finds no id: the id field empty, the permalink set.
FailOpenIds == {"a", "b"}
FailOpenPosts ==
  { SummaryPost(id, UrlOf(id)) : id \in FailOpenIds }
    \cup { SummaryPost(Empty, UrlOf(id)) : id \in FailOpenIds }

NextFailOpen ==
  \/ \E n \in 1 .. MaxBatch : main(n)
  \/ \E p \in FailOpenPosts : ProcessPost(p)
  \/ AnalyzeBegin
  \/ \E k \in ErrorKinds : Attempt(k, NoResponse, 0)
  \/ Attempt("json", GoodResponse("True"), 0)
  \/ FinishPost
  \/ \E i \in FeedIds : TwitterTweet(i, FeedUrl)

SpecFailOpen == Init /\ [][NextFailOpen]_vars

\* The keyword loop of the PhantomBuster fetch.
\* The classifier under the scheduling of its caller: analyze_lead_with_gpt
\* is sequential code, so a call that has started does its guard checks,
\* and a retry loop that is waiting for an answer gets one (a response, an
\* error, or the 30 s timeout of the request).  The runs are the ones of
\* one date: three posts, enough for the daily limit and for the breaker
\* to block a call.
NextClassify ==
  \/ \E n \in 1 .. MaxBatch : main(n)
  \/ \E id \in Ids : ProcessPost(SummaryPost(id, UrlOf(id)))
  \/ AnalyzeBegin
  \/ \E k \in ErrorKinds : Attempt(k, NoResponse, 0)
  \/ \E r \in InvalidResponses : Attempt("json", r, 0)
  \/ \E c \in CallCosts : Attempt("json", GoodResponse("False"), c)
  \/ FinishPost

SpecClassify ==
  /\ Init
  /\ [][NextClassify]_vars
  /\ WF_vars(AnalyzeBegin)
  /\ WF_vars(\E k \in ErrorKinds \cup {"json"}, r \in Responses,
                 c \in CallCosts : Attempt(k, r, c))

\* ------------------------------------------------ PhantomBuster polling
\* time.sleep(2) before the first poll, time.sleep(5) after "not found".
initial_delay == 2
not_found_delay == 5

\* What get_agent_status gives one poll: the exception "Container ... not
\* found", another exception (HTTP error), or the container, of which
\* wait_for_completion reads endDate and lastEndStatus.
NoPoll == [kind |-> "none", endDate |-> None, lastEndStatus |-> None]
PollResponses ==
  { [kind |-> k, endDate |-> None, lastEndStatus |-> None] :
      k \in {"not_found", "error"} }
    \cup [kind : {"container"}, endDate : {None, "1700000000"},
           lastEndStatus : {None, "success", "error"}]

\* Any finished container counts as a success.
is_success_any(container) == TRUE

is_success(container) == container.lastEndStatus = "success"

\* One pass of the while loop of wait_for_completion: w is the call so far
\* (elapsed, the last poll), response what this pass's poll gives, delay
\* the time the request itself takes.
wait_for_completion(args, w, response, delay) ==
  IF w.elapsed > args.timeout
    THEN [w EXCEPT !.returned = TRUE, !.outcome = "TimeoutError"]
    ELSE LET polled == [w EXCEPT !.last = response,
                                 !.elapsed = w.elapsed + delay]
         IN  IF response.kind = "not_found"
               THEN [polled EXCEPT !.elapsed = @ + not_found_delay]
             ELSE IF response.kind = "error"
               THEN [polled EXCEPT !.returned = TRUE,
                                   !.outcome = "Exception"]
             ELSE IF ~Falsy(response.endDate)
               THEN [polled EXCEPT !.returned = TRUE,
                                   !.outcome = IF is_success(response)
                                                 THEN "container"
                                                 ELSE "Exception"]
               ELSE [polled EXCEPT !.elapsed = @ + args.poll_interval]

InitWait ==
  /\ InitProgram
  /\ interval_hours = 1
  /\ call_args \in [fn : {"wait_for_completion"},
                     timeout : 0 .. MaxTimeout,
                     poll_interval : 1 .. MaxPollInterval]
  /\ call_result = [returned |-> FALSE, outcome |-> "none",
                    elapsed |-> initial_delay, last |-> NoPoll]

WaitForCompletion(response, delay) ==
  /\ call_args.fn = "wait_for_completion"
  /\ ~call_result.returned
  /\ call_result' = wait_for_completion(call_args, call_result, response,
                                        delay)
  /\ UNCHANGED call_args
  /\ UNCHANGED <<storeVars, today, guardVars, runVars, histVars, fetchVars>>
  /\ UNCHANGED monitorVars

NextWait ==
  \E response \in PollResponses, delay \in {0, 1} :
    WaitForCompletion(response, delay)

\* The caller's thread runs the loop: a call under way takes its next pass.
SpecWait == InitWait /\ [][NextWait]_vars /\ WF_vars(NextWait)

\* ------------------------------------------------------- Twitter search
\* What client.search_tweets gives for one keyword: it raises, or returns
\* tweets, of which the search reads the id; a tweet is told apart from
\* another with the same id by the keyword that found it.
SearchOutcomes ==
  [raises : BOOLEAN, ids : ListsOf(TweetIds \cup {None}, MaxTweets)]
TweetsOf(keyword, ids) ==
  [j \in 1 .. Len(ids) |-> [id |-> ids[j], keyword |-> keyword]]

\* Keeps every tweet that has an id, seen before or not.
is_new_tweet_unseen(tweet_id, seen_tweet_ids) == ~Falsy(tweet_id)

\* "if tweet_id and tweet_id not in seen_tweet_ids"
is_new_tweet(tweet_id, seen_tweet_ids) ==
  ~Falsy(tweet_id) /\ tweet_id \notin seen_tweet_ids

\* The inner loop: "Deduplicate by tweet ID".
deduplicate(acc, tweets) ==
  LET after[j \in 0 .. Len(tweets)] ==
        IF j = 0 THEN acc
        ELSE LET before == after[j - 1]
                 tweet == tweets[j]
             IN  IF is_new_tweet(tweet.id, before.seen_tweet_ids)
                   THEN [before EXCEPT
                           !.seen_tweet_ids = @ \cup {tweet.id},
                           !.all_tweets = Append(@, tweet)]
                   ELSE before
  IN  after[Len(tweets)]

\* search_twitter_for_leads is called with the configured keywords; the
\* k-th keyword's search will have the outcome results[k].
InitSearch ==
  /\ InitProgram
  /\ interval_hours = 1
  /\ call_args \in [fn : {"search_twitter_for_leads"},
                     results : ListsOf(SearchOutcomes, MaxKeywords)]
  /\ call_result = [returned |-> FALSE, i |-> 1, all_tweets |-> <<>>,
                    seen_tweet_ids |-> {}]

\* One pass of the keyword loop: the search, then the inner loop, or the
\* handler of the exception.
SearchKeyword ==
  /\ call_args.fn = "search_twitter_for_leads"
  /\ ~call_result.returned
  /\ call_result.i <= Len(call_args.results)
  /\ LET outcome == call_args.results[call_result.i]
         next == [call_result EXCEPT !.i = @ + 1]
     IN  call_result' =
           IF outcome.raises
             THEN next
             ELSE deduplicate(next, TweetsOf(call_result.i, outcome.ids))
  /\ UNCHANGED call_args
  /\ UNCHANGED <<storeVars, today, guardVars, runVars, histVars, fetchVars>>
  /\ UNCHANGED monitorVars

\* The loop is over (at once when no keyword is configured): return.
SearchReturns ==
  /\ call_args.fn = "search_twitter_for_leads"
  /\ ~call_result.returned
  /\ call_result.i > Len(call_args.results)
  /\ call_result' = [call_result EXCEPT !.returned = TRUE]
  /\ UNCHANGED call_args
  /\ UNCHANGED <<storeVars, today, guardVars, runVars, histVars, fetchVars>>
  /\ UNCHANGED monitorVars

NextSearch ==
  \/ SearchKeyword
  \/ SearchReturns

SpecSearch == InitSearch /\ [][NextSearch]_vars

\* One process that classifies up to four posts: enough calls for two of
\* them to fail through their retries and for later ones to find the
\* circuit open.
BreakerPosts ==
  { SummaryPost(id, UrlOf(id)) : id \in Ids \cup {"d"} }

NextBreaker ==
  \/ \E n \in 1 .. MaxBatch : main(n)
  \/ \E p \in BreakerPosts : ProcessPost(p)
  \/ AnalyzeBegin
  \/ \E k \in ErrorKinds : Attempt(k, NoResponse, 0)
  \/ Attempt("json", GoodResponse("False"), 0)
  \/ FinishPost
  \/ DateAdvance

SpecBreaker == Init /\ [][NextBreaker]_vars

NextFetch ==
  \/ \E n \in 1 .. MaxKeywords : FetchStart(n)
  \/ FetchCached
  \/ FetchFresh
  \/ AgentRun

SpecFetch == Init /\ [][NextFetch]_vars

\* ----------------------------------------------------------- the store
\* C1: a save_activity_id call returns true exactly when its key is not in
\* the table yet, which it then inserts; a call for a key already there
\* returns false and leaves the table as it was; no row is ever removed and
\* no row's url or discovery timestamp ever changes.  So every key gets a
\* true exactly once.
C1_RegisterOnce ==
  [][ /\ \A r \in activity_ids : \E q \in activity_ids' :
            /\ q.platform = r.platform
            /\ q.activity_id = r.activity_id
            /\ q.original_url = r.original_url
            /\ q.discovered_at = r.discovered_at
      /\ last_reg' # NoCall =>
           LET existed == ActivityKeyExists(activity_ids, last_reg'.platform,
                                            last_reg'.activity_id)
           IN  /\ last_reg'.ret = ~existed
               /\ ActivityKeyExists(activity_ids', last_reg'.platform,
                                    last_reg'.activity_id)
               /\ existed => activity_ids' = activity_ids ]_vars

\* A repeated registration, on a later date than the discovery.
C1_Witness ==
  /\ last_reg # NoCall
  /\ ~last_reg.ret
  /\ \E r \in activity_ids :
       /\ r.platform = last_reg.platform
       /\ r.activity_id = last_reg.activity_id
       /\ r.discovered_at < today

\* C2: the leads table never holds two rows for one (platform, post id).
C2_OneLeadPerPost ==
  \A l1 \in leads, l2 \in leads :
    l1.platform = l2.platform /\ l1.post_id = l2.post_id => l1 = l2

\* A LinkedIn post that already has its lead comes in again, on a later date.
C2_Witness ==
  \E l \in leads :
    /\ l.platform = "linkedin"
    /\ l.scraped_at < today
    /\ last_reg = [platform |-> "linkedin", activity_id |-> l.post_id,
                   ret |-> FALSE]

\* ------------------------------------------- the classifier and its guard
\* Steps of the classifier client, read off two consecutive states.
\* A request is sent to the classifier.
SendStep == reqs_in_call' = reqs_in_call + 1
\* The request's answer validated and was returned to the pipeline.
SuccessStep == SendStep /\ pc' = "finish" /\ via' = "gpt"
\* The attempt ended in one of the except branches.
FailureStep == SendStep /\ ~SuccessStep
\* A classify call evaluates its checks.
BeginStep == pc = "analyze" /\ pc' # "analyze"
\* The checks end the call before any attempt.
BlockedStep == BeginStep /\ pc' = "finish"

IsFallback(v) ==
  /\ v.is_genuine_lead = "True"
  /\ v.confidence_score = 50
  /\ v.lead_quality = "warm"
  /\ v.hiring_type = "unclear"
  /\ Len(v.red_flags) > 0

\* C3: once the cost of the run's classifier calls has crossed the ceiling,
\* the run is aborted: no further request is sent to the classifier and no
\* further post of the batch is taken up in that run.
C3_CostLimitAbortsRun ==
  [][ run_exceeded => /\ ~SendStep
                      /\ ~(pc = "loop" /\ remaining' = remaining - 1) ]_vars

\* C4 as stated: in the state right after the threshold-th consecutive
\* failure the usage stats report the circuit breaker as active.
C4_OpenRightAfterThreshold ==
  GPT_FAILURE_COUNT = GPT_CIRCUIT_BREAKER_THRESHOLD
    => get_gpt_usage_stats.circuit_breaker_active

\* C4 amended: a failed attempt leaves the reported flag as it was; the flag
\* becomes true when a classify call evaluates its circuit check with the
\* counter at or above the threshold, and that call is blocked; the flag is
\* never true with the counter below the threshold; a validated success sets
\* the counter to 0 and the flag to false.
C4_OpenAtNextCheck ==
  [][ /\ FailureStep =>
           GPT_CIRCUIT_BREAKER_ACTIVE' = GPT_CIRCUIT_BREAKER_ACTIVE
      /\ BeginStep /\ GPT_FAILURE_COUNT >= GPT_CIRCUIT_BREAKER_THRESHOLD =>
           /\ get_gpt_usage_stats'.circuit_breaker_active
           /\ BlockedStep
           /\ via' = "circuit"
      /\ BeginStep /\ GPT_FAILURE_COUNT < GPT_CIRCUIT_BREAKER_THRESHOLD =>
           via' # "circuit"
      /\ GPT_CIRCUIT_BREAKER_ACTIVE' =>
           GPT_FAILURE_COUNT' >= GPT_CIRCUIT_BREAKER_THRESHOLD
      /\ SuccessStep => /\ GPT_FAILURE_COUNT' = 0
                        /\ ~get_gpt_usage_stats'.circuit_breaker_active
    ]_vars

\* The circuit has opened: a call was blocked after the threshold was reached.
C4_Witness ==
  /\ get_gpt_usage_stats.circuit_breaker_active
  /\ get_gpt_usage_stats.failure_count >= GPT_CIRCUIT_BREAKER_THRESHOLD

\* C5 as stated: no request, first attempt or retry, is sent with the
\* failure counter at or above the threshold or the daily counter at or
\* above the daily limit.
C5_CheckedBeforeEveryAttempt ==
  [][ SendStep => /\ GPT_FAILURE_COUNT < GPT_CIRCUIT_BREAKER_THRESHOLD
                  /\ GPT_DAILY_CALL_COUNT < GPT_DAILY_CALL_LIMIT ]_vars

\* C5 amended: the two checks run once per classify call, before its first
\* attempt: the first request of a call is never sent with the failure
\* counter at or above the threshold, no request is sent with the daily
\* counter at or above the limit, a call blocked by the circuit check does
\* not reach the daily check, and a blocked call returns the fallback
\* verdict having sent nothing and recorded nothing.
C5_CheckedBeforeFirstAttempt ==
  [][ /\ SendStep /\ reqs_in_call = 0 =>
           GPT_FAILURE_COUNT < GPT_CIRCUIT_BREAKER_THRESHOLD
      /\ SendStep => GPT_DAILY_CALL_COUNT < GPT_DAILY_CALL_LIMIT
      /\ BlockedStep => /\ reqs_in_call' = 0
                        /\ IsFallback(verdict')
                        /\ GPT_FAILURE_COUNT' = GPT_FAILURE_COUNT
                        /\ GPT_COST_THIS_RUN' = GPT_COST_THIS_RUN
      /\ BlockedStep /\ via' = "circuit" =>
           UNCHANGED <<GPT_DAILY_CALL_COUNT, GPT_LAST_RESET_DATE>>
    ]_vars

\* A call was blocked by the circuit check and returned without an attempt.
C5_Witness == pc = "finish" /\ via = "circuit" /\ reqs_in_call = 0

\* C6 as stated: at most daily_limit requests are sent on one calendar date.
C6_AttemptsPerDate == sent_today <= GPT_DAILY_CALL_LIMIT

\* C6 amended: the daily counter counts validated successes only.  The
\* daily check of a call that passed the circuit check resets the counter to
\* 0 when the date differs from the last reset date, stamps the date, and
\* blocks the call exactly when the counter is then at or above the limit;
\* a success adds 1 and never takes the counter above the limit; a failed
\* attempt and every other step leave the counter and the reset date alone.
C6_SuccessesPerDate ==
  [][ /\ BeginStep /\ via' # "circuit" =>
           LET c == IF GPT_LAST_RESET_DATE # today THEN 0
                                                   ELSE GPT_DAILY_CALL_COUNT
           IN  /\ GPT_DAILY_CALL_COUNT' = c
               /\ GPT_LAST_RESET_DATE' = today
               /\ BlockedStep <=> c >= GPT_DAILY_CALL_LIMIT
               /\ BlockedStep => via' = "daily"
      /\ SuccessStep => /\ GPT_DAILY_CALL_COUNT' = GPT_DAILY_CALL_COUNT + 1
                        /\ GPT_DAILY_CALL_COUNT' <= GPT_DAILY_CALL_LIMIT
      /\ FailureStep => GPT_DAILY_CALL_COUNT' = GPT_DAILY_CALL_COUNT
      /\ ~BeginStep /\ ~SendStep =>
           UNCHANGED <<GPT_DAILY_CALL_COUNT, GPT_LAST_RESET_DATE>>
    ]_vars

\* A call is blocked by the daily limit on a date on which more requests
\* than the limit were sent.
C6_Witness ==
  /\ pc = "finish" /\ via = "daily"
  /\ GPT_DAILY_CALL_COUNT = GPT_DAILY_CALL_LIMIT
  /\ sent_today > GPT_DAILY_CALL_LIMIT

\* The calls resume on the next date: a request is out after the reset.
C6_Resumed ==
  /\ pc = "attempt" /\ GPT_DAILY_CALL_COUNT = 0
  /\ GPT_LAST_RESET_DATE = today /\ today > 1

\* C7: when the last of the max_retries attempts of a call fails, the call
\* returns, and what it returns is the fallback verdict: lead flag true,
\* confidence 50, quality warm, hiring type unclear, some red flag.
C7_FallbackOnExhaustion ==
  [][ FailureStep /\ reqs_in_call' = max_retries =>
        /\ pc' = "finish"
        /\ via' = "exhausted"
        /\ IsFallback(verdict') ]_vars

\* A call has used up its attempts.
C7_Witness == pc = "finish" /\ via = "exhausted" /\ IsFallback(verdict)

\* C8: a classify call sends at most max_retries requests; every failed
\* attempt, of whatever kind, uses up exactly one pass of the loop.
C8_AtMostThreeRequests ==
  [][ /\ reqs_in_call' <= max_retries
      /\ pc' = "attempt" => attempt' = reqs_in_call'
      /\ FailureStep =>
           \/ pc' = "attempt" /\ attempt' = attempt + 1
           \/ pc' = "finish" /\ reqs_in_call' = max_retries ]_vars

\* Two attempts have failed and the third is about to be sent.
C8_Witness ==
  /\ pc = "attempt"
  /\ attempt = max_retries - 1
  /\ reqs_in_call = max_retries - 1

C10_OnlySuccessLowers ==
  [][ GPT_FAILURE_COUNT' < GPT_FAILURE_COUNT =>
        SuccessStep /\ GPT_FAILURE_COUNT' = 0 ]_vars

\* A run starts, and a date passes, with failures on the counter.
C10_Witness ==
  /\ GPT_FAILURE_COUNT >= max_retries
  /\ pc = "loop"
  /\ today > 1
  /\ GPT_COST_THIS_RUN = 0

\* C11: a classify call that the daily limit blocks returns the fallback
\* verdict in the same step, sends no request, and leaves the failure
\* counter, the circuit flag and the run's cost as they were.
C11_DailyBlockFrame ==
  [][ BlockedStep /\ via' = "daily" =>
        /\ IsFallback(verdict')
        /\ ~SendStep
        /\ reqs_in_call' = 0
        /\ sent_today' = sent_today
        /\ UNCHANGED <<GPT_FAILURE_COUNT, GPT_CIRCUIT_BREAKER_ACTIVE,
                       GPT_COST_THIS_RUN>> ]_vars

\* A call blocked by the daily limit in a run that has already spent money.
C11_Witness ==
  /\ pc = "finish" /\ via = "daily"
  /\ IsFallback(verdict)
  /\ reqs_in_call = 0
  /\ GPT_COST_THIS_RUN > 0
  /\ ~GPT_CIRCUIT_BREAKER_ACTIVE

\* -------------------------------------------------------- the batch loop
\* The row of a LinkedIn activity id is marked scraped in the table.
Done(tbl, activity_id) ==
  \E r \in tbl : /\ r.platform = "linkedin"
                  /\ r.activity_id = activity_id
                  /\ r.scraped

\* The LinkedIn lead of a post id is in the table.
HasLead(tbl, post_id) ==
  \E l \in tbl : l.platform = "linkedin" /\ l.post_id = post_id

C13_ItemExceptionCaught ==
  [][ item' \in {"Failed", "Raised"} =>
        /\ item' = "Failed"
        /\ remaining' = remaining - 1
        /\ pc' = LoopNext(remaining') ]_vars

\* C14: the first post of a run, whose activity row can only come from an
\* earlier run, is skipped as a duplicate only when that row is marked
\* scraped; a post whose row was registered but never marked is taken up
\* again.
C14_InFlightReprocessed ==
  [][ /\ pc = "loop"
      /\ ~activity_id_bound
      /\ item' = "Duplicate"
      => Done(activity_ids, last_reg'.activity_id) ]_vars

\* C16: the classifier is entered only from the batch loop, for a post the
\* same step registered as new, whose required fields are all present and
\* whose text matched the pre-filter; as rows are never removed, that is at
\* most once per post.  An item that ends as filtered or as rejected by the
\* verdict has its row marked scraped and persists no lead, and a filtered
\* item sends no request.
C16_StagesInOrder ==
  [][ /\ pc # "analyze" /\ pc' = "analyze" =>
           /\ pc = "loop"
           /\ last_reg' = [platform |-> "linkedin",
                           activity_id |-> cur'.activity_id, ret |-> TRUE]
           /\ ~ActivityKeyExists(activity_ids, "linkedin",
                                 cur'.activity_id)
           /\ ~Done(activity_ids', cur'.activity_id)
           /\ cur'.lead_data.activity_id # None
           /\ cur'.lead_data.post_url # NoUrl
           /\ cur'.lead_data.author_name # None
           /\ cur'.lead_data.post_content = "need a pr agency"
      /\ item' = "Filtered" =>
           /\ pc = "loop"
           /\ last_reg'.ret
           /\ Done(activity_ids', last_reg'.activity_id)
           /\ leads' = leads
           /\ pc' # "analyze"
           /\ ~SendStep
      /\ item' = "Rejected" =>
           /\ pc = "finish"
           /\ verdict.is_genuine_lead = "False"
           /\ Done(activity_ids', cur.activity_id)
           /\ leads' = leads ]_vars

\* A post was classified, rejected by the verdict and marked scraped, and
\* another post was filtered out before it in the same table.
C16_Witness ==
  /\ item = "Rejected"
  /\ leads = {}
  /\ \E r1 \in activity_ids, r2 \in activity_ids :
       /\ r1.activity_id # r2.activity_id
       /\ r1.platform = "linkedin" /\ r1.scraped
       /\ r2.platform = "linkedin" /\ r2.scraped

\* C17: when an item ends as qualified, the LinkedIn lead of the id it was
\* registered with is in the leads table and its activity row is marked
\* scraped.
C17_QualifiedHasLead ==
  [][ item' = "Qualified" =>
        /\ HasLead(leads', cur.activity_id)
        /\ Done(activity_ids', cur.activity_id) ]_vars

\* C18: when a post whose id was derived from its permalink ends as
\* qualified, its lead is stored under the id the post was registered with.
C18_DerivedIdLeadUnderSameId ==
  [][ /\ pc = "finish"
      /\ Falsy(cur.lead_data.activity_id)
      /\ verdict.is_genuine_lead = "True"
      /\ pc' # "finish"
      /\ item' # "Terminated"
      => \E l \in leads' : l.post_id = cur.activity_id ]_vars

\* C15: the run's cost is 0 when a run enters the batch loop, whatever the
\* run before it spent; no step of a run lowers it; outside a run (between
\* the end of one batch and the next call of main) nothing changes it but
\* main's reset.
C15_RunCostPerRun ==
  [][ /\ pc = "idle" /\ pc' # "idle" => GPT_COST_THIS_RUN' = 0
      /\ pc # "idle" => GPT_COST_THIS_RUN' >= GPT_COST_THIS_RUN
      /\ pc = "idle" => GPT_COST_THIS_RUN' \in {0, GPT_COST_THIS_RUN}
      /\ last_reset' => pc = "idle" /\ GPT_COST_THIS_RUN' = 0 ]_vars

\* A run starts at cost 0 right after a run that had spent money.
C15_Witness ==
  /\ last_reset
  /\ pc = "loop"
  /\ GPT_COST_THIS_RUN = 0

\* ----------------------------------------------------------- the fetch
\* C19 as stated: the cached path never fetches a container that is
\* recorded as processed.
C19_ProcessedNeverRefetched ==
  [][ last_fetch' # NoFetch => ~last_fetch'.processed ]_vars

\* C19 amended: the cached path fetches the latest listed container that
\* is not recorded as processed; only when every listed container is
\* recorded, it fetches the latest one again.  Either way the fetched
\* container is recorded afterwards and no other record changes.
C19_LatestUnprocessedElseLatest ==
  [][ last_fetch' # NoFetch =>
        LET cs == get_all_containers(containers, containers_limit)
            c == last_fetch'.container_id
        IN  /\ \E k \in 1 .. Len(cs) :
                 /\ cs[k] = c
                 /\ \A j \in 1 .. k - 1 : cs[j] \in processed_containers
            /\ last_fetch'.processed = (c \in processed_containers)
            /\ last_fetch'.processed =>
                 /\ \A k \in 1 .. Len(cs) : cs[k] \in processed_containers
                 /\ c = cs[1]
            /\ processed_containers' = processed_containers \cup {c} ]_vars

\* The latest container was fetched again although it, and the older one,
\* were recorded as processed.
C19_Witness ==
  /\ last_fetch # NoFetch
  /\ last_fetch.processed
  /\ Len(containers) >= 2
  /\ last_fetch.container_id = containers[1]

\* ------------------------------------------------------------ the leads
\* C20: no step removes a lead or changes its id, platform, post id,
\* permalink or timestamp, and its dismissed flag only goes from 0 to 1; a
\* save_lead call for a post id that has a lead returns false and leaves the
\* table as it was, a call for a post id without a lead returns true and
\* adds one row, not dismissed; a step that changes a row of the table is
\* no step of a scraper, and changes one row's flag to 1.
C20_LeadWrittenOnce ==
  [][ /\ \A l \in leads : \E m \in leads' :
            /\ m.id = l.id
            /\ m.platform = l.platform
            /\ m.post_id = l.post_id
            /\ m.post_url = l.post_url
            /\ m.scraped_at = l.scraped_at
            /\ m.dismissed >= l.dismissed
            /\ m.dismissed \in {0, 1}
      /\ last_save' # NoSave =>
           LET existed == \E l \in leads : l.post_id = last_save'.post_id
           IN  /\ last_save'.ret = ~existed
               /\ existed => leads' = leads
               /\ ~existed =>
                    /\ leads \subseteq leads'
                    /\ Cardinality(leads') = Cardinality(leads) + 1
                    /\ \A m \in leads' \ leads :
                         /\ m.platform = last_save'.platform
                         /\ m.post_id = last_save'.post_id
                         /\ m.dismissed = 0
      /\ ~(leads \subseteq leads') =>
           /\ last_save' = NoSave
           /\ UNCHANGED <<activity_ids, pc, guardVars>>
           /\ Cardinality(leads \ leads') = 1
           /\ Cardinality(leads' \ leads) = 1
           /\ \A m \in leads' \ leads : m.dismissed = 1 ]_vars

\* A lead was dismissed, and on a later date a save_lead call for its post
\* id came in and was ignored.
C20_Witness ==
  /\ last_save # NoSave
  /\ ~last_save.ret
  /\ \E l \in leads :
       /\ l.post_id = last_save.post_id
       /\ l.dismissed = 1
       /\ l.scraped_at < today

\* ----------------------------------------------------- the activity rows
\* The row of a key, in any platform, is marked scraped.
Scraped(tbl, platform, activity_id) ==
  \E r \in tbl : /\ r.platform = platform
                  /\ r.activity_id = activity_id
                  /\ r.scraped

\* C21: a row enters the table only through a save_activity_id call that
\* returns true, and enters it not scraped; no row leaves the table and a
\* scraped row stays scraped; and on the table of every state, marking a
\* key that has no row changes nothing (no row is created), marking a key
\* that is scraped changes nothing, and marking any key leaves it scraped
\* if it has a row, touches no other row and gives the same table when it
\* is repeated.
C21_DoneOnlyRises ==
  [][ /\ \A r \in activity_ids : \E q \in activity_ids' :
            /\ q.platform = r.platform
            /\ q.activity_id = r.activity_id
            /\ r.scraped => q.scraped
      /\ \A q \in activity_ids' :
            ~ActivityKeyExists(activity_ids, q.platform, q.activity_id) =>
              /\ ~q.scraped
              /\ last_reg' = [platform |-> q.platform,
                              activity_id |-> q.activity_id, ret |-> TRUE]
      /\ \A p \in ActivityPlatforms, i \in ActivityKeyIds :
            LET t == mark_activity_scraped(activity_ids, p, i)
            IN  /\ ~ActivityKeyExists(activity_ids, p, i)
                     => t = activity_ids
                /\ Scraped(activity_ids, p, i) => t = activity_ids
                /\ ActivityKeyExists(activity_ids, p, i) => Scraped(t, p, i)
                /\ \A r \in activity_ids :
                     ~(r.platform = p /\ r.activity_id = i) => r \in t
                /\ Cardinality(t) = Cardinality(activity_ids)
                /\ mark_activity_scraped(t, p, i) = t ]_vars

\* A key was registered, marked, and on a later date registered again
\* (refused), while another key was never registered.
C21_Witness ==
  /\ last_reg # NoCall
  /\ ~last_reg.ret
  /\ \E r \in activity_ids :
       /\ r.platform = last_reg.platform
       /\ r.activity_id = last_reg.activity_id
       /\ r.scraped
       /\ r.discovered_at < today
  /\ \E p \in ActivityPlatforms, i \in ActivityKeyIds :
       ~ActivityKeyExists(activity_ids, p, i)

\* ------------------------------------------------------ the run's report
\* The run over SummaryBatch has ended with its third post newly saved,
\* while the id of its first post was registered before the run and never
\* processed: the first post was skipped as a duplicate, the second, new,
\* has no permalink, the third, new, was accepted.
SummaryCase ==
  /\ pc = "idle"
  /\ item = "Qualified"
  /\ last_save = [platform |-> "linkedin", post_id |-> "c", ret |-> TRUE]
  /\ ActivityKeyExists(activity_ids, "linkedin", "a")
  /\ ~Done(activity_ids, "a")

Occurs(term, text) == Contains(lower(term), lower(text))
\* The author title as text: an absent title is the empty text.
TitleText(author_title) ==
  IF author_title = NoStr THEN <<>> ELSE author_title
\* A keyword without the double quotes around it.
Unquoted(keyword) == strip(keyword, {"\""})
\* The call of detect_matched_filters has returned.
MatchReturned ==
  call_args.fn = "detect_matched_filters" /\ call_result.returned

ExampleMatches ==
  [matched_keywords |-> ExampleConfig.keywords,
   matched_roles |-> <<>>,
   matched_categories |-> ExampleConfig.industries]

\* C23 as stated: each returned subset holds, in configured order, exactly
\* the configured terms that occur as a case-insensitive substring of the
\* content (roles and categories: of the content or the author title).
C23_ExactlyOccurringTerms ==
  MatchReturned =>
    LET content == call_args.post_content
        title == TitleText(call_args.author_title)
        InContent(term) == Occurs(term, content)
        InEither(term) == Occurs(term, content) \/ Occurs(term, title)
        out == call_result.value
    IN  /\ out.matched_keywords
             = SelectSeq(call_args.config.keywords, InContent)
        /\ out.matched_roles
             = SelectSeq(call_args.config.job_titles, InEither)
        /\ out.matched_categories
             = SelectSeq(call_args.config.industries, InEither)

\* C23 amended: a keyword is looked for without the double quotes around
\* it (and returned as configured); otherwise as stated: configured order,
\* case-insensitive substring of the content, roles and categories also of
\* the author title, the inputs left as they were, and the documented
\* example gives its documented subsets.
C23_ExactlyOccurringUnquotedTerms ==
  [][ MatchReturned' =>
        LET content == call_args.post_content
            title == TitleText(call_args.author_title)
            InContent(keyword) == Occurs(Unquoted(keyword), content)
            InEither(term) == Occurs(term, content) \/ Occurs(term, title)
            out == call_result'.value
        IN  /\ call_args' = call_args
            /\ out.matched_keywords
                 = SelectSeq(call_args.config.keywords, InContent)
            /\ out.matched_roles
                 = SelectSeq(call_args.config.job_titles, InEither)
            /\ out.matched_categories
                 = SelectSeq(call_args.config.industries, InEither)
            /\ /\ content = ExampleContent
               /\ call_args.config = ExampleConfig
               /\ title = <<>>
               => out = ExampleMatches ]_vars

\* The matcher has returned two keywords in configured order, the first
\* of them configured in quotes and in another case than the content,
\* and a category that differs from the content in case.
C23_Witness ==
  /\ MatchReturned
  /\ call_args.post_content = <<"p", "c">>
  /\ call_result.value.matched_keywords
       = << <<"\"", "P", "c", "\"">>, <<"p">> >>
  /\ call_result.value.matched_categories = << <<"P">> >>
  /\ call_result.value.matched_roles = << <<"c">> >>
  /\ Len(call_args.config.job_titles) = 2

\* C24 as stated: for empty content the three returned subsets are empty.
C24_EmptyContentNoMatches ==
  MatchReturned /\ call_args.post_content = <<>> =>
    /\ call_result.value.matched_keywords = <<>>
    /\ call_result.value.matched_roles = <<>>
    /\ call_result.value.matched_categories = <<>>

\* No term of the list is the empty string.
NoEmptyTerm(terms) == \A i \in 1 .. Len(terms) : terms[i] # <<>>

\* C24 amended: for empty content and lists without empty terms (a keyword
\* counts without the quotes around it) the keyword subset is empty and the
\* role and category subsets hold exactly the terms that occur in the
\* author title: all three are empty when the title is empty or absent.
C24_EmptyContentTitleMatches ==
  MatchReturned /\ call_args.post_content = <<>> =>
    LET title == TitleText(call_args.author_title)
        config == call_args.config
        InTitle(term) == Occurs(term, title)
        out == call_result.value
    IN  /\ NoEmptyTerm([i \in 1 .. Len(config.keywords) |->
                          Unquoted(config.keywords[i])])
             => out.matched_keywords = <<>>
        /\ NoEmptyTerm(config.job_titles)
             => /\ out.matched_roles = SelectSeq(config.job_titles, InTitle)
                /\ title = <<>> => out.matched_roles = <<>>
        /\ NoEmptyTerm(config.industries)
             => /\ out.matched_categories
                     = SelectSeq(config.industries, InTitle)
                /\ title = <<>> => out.matched_categories = <<>>

\* The matcher has returned for empty content, lists of non-empty terms
\* and a title in which a configured role occurs.
C24_Witness ==
  /\ MatchReturned
  /\ call_args.post_content = <<>>
  /\ call_args.author_title = <<"P", "c">>
  /\ NoEmptyTerm(call_args.config.job_titles)
  /\ NoEmptyTerm(call_args.config.industries)
  /\ call_args.config.keywords = << <<"p">>, <<"\"", "P", "c", "\"">> >>
  /\ call_result.value.matched_keywords = <<>>
  /\ call_result.value.matched_roles = << <<"c">> >>
  /\ call_result.value.matched_categories = << <<"P">> >>

\* --------------------------------------------------- company extraction
\* The call of extract_company_from_title has returned.
CompanyReturned ==
  call_args.fn = "extract_company_from_title" /\ call_result.returned
\* The title holds no text: absent, not a string, empty or blank.
NoTitle(title) ==
  title \in {NoStr, NotAStr} \/ strip(title, whitespace) = <<>>
\* The positions of "at", in either case, as a whole word of the text.
WholeWordAt(text) ==
  { k \in 1 .. Len(text) - 1 :
      /\ lower(SubSeq(text, k, k + 1)) = <<"a", "t">>
      /\ k = 1 \/ text[k - 1] \notin WordChars
      /\ k + 1 = Len(text) \/ text[k + 2] \notin WordChars }
\* The text after position k, trimmed.
TrimmedAfter(text, k) == strip(SubSeq(text, k + 1, Len(text)), whitespace)
\* The positions of a character in the text.
PositionsOf(char, text) == { k \in 1 .. Len(text) : text[k] = char }
\* The line of the text that starts after position k, trimmed.
TrimmedLineAfter(text, k) ==
  LET ends == { j \in k + 1 .. Len(text) : text[j] = "\n" }
                \cup {Len(text) + 1}
  IN  strip(SubSeq(text, k + 1, First(ends) - 1), whitespace)

\* The documented examples.
CompanyExamples(title, value) ==
  /\ title = ExampleAtTitle
       => value = <<"A", "c", "m", "e", " ", "C", "o", "r", "p">>
  /\ title = ExampleSignTitle
       => value = <<"B", "e", "a", "u", "t", "y", " ", "C", "o">>
  /\ title = ExamplePipeTitle
       => value = <<"F", "o", "o", "d", " ", "I", "n", "c">>

\* C25 as stated: the result is the trimmed text after the first whole
\* word "at" if the title has one, else after the first "@" if it has one,
\* else after the first "|" if it has one; none for a title with none of
\* them and for an empty or blank title.
C25_TextAfterFirstSeparatorKind ==
  CompanyReturned =>
    LET title == call_args.title
        text == strip(title, whitespace)
        value == call_result.value
    IN  /\ CompanyExamples(title, value)
        /\ IF NoTitle(title) THEN value = NoStr
           ELSE IF WholeWordAt(text) # {}
             THEN value = TrimmedAfter(text, First(WholeWordAt(text)) + 1)
           ELSE IF PositionsOf("@", text) # {}
             THEN value = TrimmedAfter(text, First(PositionsOf("@", text)))
           ELSE IF PositionsOf("|", text) # {}
             THEN value = TrimmedAfter(text, First(PositionsOf("|", text)))
           ELSE value = NoStr

\* A whole word "at" that separates: the title, trimmed, goes on after it
\* on the same line.
SeparatingAt(text) ==
  { k \in WholeWordAt(text) : k + 2 <= Len(text) /\ text[k + 2] # "\n" }

\* C25 amended: "at" is a separator only where the trimmed title goes on
\* after it on the same line, and the result is then the trimmed rest of
\* that line; otherwise as stated.
C25_TextAfterFirstSeparatingKind ==
  CompanyReturned =>
    LET title == call_args.title
        text == strip(title, whitespace)
        value == call_result.value
    IN  /\ CompanyExamples(title, value)
        /\ IF NoTitle(title) THEN value = NoStr
           ELSE IF SeparatingAt(text) # {}
             THEN value
                    = TrimmedLineAfter(text, First(SeparatingAt(text)) + 1)
           ELSE IF PositionsOf("@", text) # {}
             THEN value = TrimmedAfter(text, First(PositionsOf("@", text)))
           ELSE IF PositionsOf("|", text) # {}
             THEN value = TrimmedAfter(text, First(PositionsOf("|", text)))
           ELSE value = NoStr

\* The extraction has returned for a title that holds "|" before "@" and
\* no "at": the text after the "@".
C25_Witness ==
  /\ CompanyReturned
  /\ call_args.title = <<"t", "|", "@", "a">>
  /\ call_result.value = <<"a">>

\* ------------------------------------------------ response validation
\* The conditions of a well-formed classifier response: a boolean lead
\* flag, a numeric confidence between 0 and 100, a known quality and hiring
\* type, a reasoning string of 10 characters or more, no field missing.
WellFormed(r) ==
  /\ r.missing = {}
  /\ r.is_genuine_lead \in {"True", "False"}
  /\ r.score_type # "str"
  /\ r.confidence_score \in 0 .. 100
  /\ r.lead_quality \in {"hot", "warm", "cold"}
  /\ r.hiring_type \in {"agency", "in-house", "unclear"}
  /\ r.reasoning_type = "str" /\ r.reasoning_len >= 10

\* A pass of the retry loop hands the answer to the pipeline as verdict.
AcceptedStep ==
  SuccessStep /\ verdict' = call_args.response /\ via' = "gpt"

C27_SingleActiveRun ==
  \A t1, t2 \in Threads :
    job[t1] = "running" /\ job[t2] = "running" => t1 = t2

\* ------------------------------------------------------------ fail-open
\* C28: when the classify call of a post has returned the fallback verdict,
\* the rest of the iteration ends the post as a lead: its LinkedIn lead is
\* in the leads table under the id the post was registered with and its
\* activity row is marked scraped.
C28_FallbackPersisted ==
  [][ /\ pc = "finish"
      /\ IsFallback(verdict)
      /\ pc' # "finish"
      => /\ item' = "Qualified"
         /\ HasLead(leads', cur.activity_id)
         /\ Done(activity_ids', cur.activity_id) ]_vars

\* ------------------------------------------------------ the run's result
\* C29: every step of a run raises processed_count by the number of rows
\* the step inserts into the leads table, so that the value the run returns
\* is the number of leads the run inserted.  (The counter starts at 0 with
\* the run; the steps of the other scrapers are not steps of the run.)
C29_ReturnCountsInsertedLeads ==
  [][ last_save'.platform \in {None, "linkedin"} =>
        processed_count' - (IF pc = "idle" THEN 0 ELSE processed_count)
          = Cardinality(leads') - Cardinality(leads) ]_vars

\* ------------------------------------------------------ lead uniqueness
\* C30: a save_lead call for a platform and post id of which the table
\* holds no lead inserts the lead and returns true, whatever leads other
\* platforms hold under the same post id.
C30_UniquePerPlatformAndId ==
  [][ /\ last_save' # NoSave
      /\ ~\E l \in leads : /\ l.platform = last_save'.platform
                            /\ l.post_id = last_save'.post_id
      => /\ last_save'.ret
         /\ \E l \in leads' : /\ l.platform = last_save'.platform
                                /\ l.post_id = last_save'.post_id ]_vars


\* C31: in every reachable state the daily call counter is at most the
\* daily limit, whatever classify calls, failures, successes and date
\* changes came before.
C31_DailyCountWithinLimit ==
  /\ GPT_DAILY_CALL_LIMIT >= 0
  /\ GPT_DAILY_CALL_COUNT <= GPT_DAILY_CALL_LIMIT

\* A call was refused with the counter standing exactly at the limit.
C31_Witness ==
  /\ via = "daily"
  /\ GPT_DAILY_CALL_COUNT = GPT_DAILY_CALL_LIMIT
  /\ GPT_DAILY_CALL_LIMIT > 0

\* C32: the consecutive failure counter never exceeds the threshold
\* plus the retries of one call minus one (7 with threshold 5 and 3
\* retries), and a classify call that starts with the counter at or above
\* the threshold leaves the counter as it is.
C32_FailureCountBounded ==
  [][/\ GPT_FAILURE_COUNT' <=
          GPT_CIRCUIT_BREAKER_THRESHOLD + max_retries - 1
     /\ (BeginStep /\ GPT_FAILURE_COUNT >= GPT_CIRCUIT_BREAKER_THRESHOLD)
          => /\ BlockedStep
             /\ GPT_FAILURE_COUNT' = GPT_FAILURE_COUNT]_vars

\* A call was refused by the breaker with the counter past the threshold.
C32_Witness ==
  /\ via = "circuit"
  /\ pc = "finish"
  /\ GPT_FAILURE_COUNT >= GPT_CIRCUIT_BREAKER_THRESHOLD

\* C33: within one process the open circuit is absorbing.  Once a classify
\* call has been blocked by the breaker (which is when the flag is set),
\* the flag stays set, the failure counter never changes again, no request
\* is sent, and every classify call that starts is blocked by the breaker
\* and returns the fallback verdict.
C33_OpenCircuitAbsorbing ==
  [][GPT_CIRCUIT_BREAKER_ACTIVE =>
       /\ GPT_CIRCUIT_BREAKER_ACTIVE'
       /\ GPT_FAILURE_COUNT' = GPT_FAILURE_COUNT
       /\ ~SendStep
       /\ BeginStep => /\ BlockedStep
                       /\ via' = "circuit"
                       /\ IsFallback(verdict')]_vars

\* The fourth classify call of the process has just been blocked, and the
\* three calls before it each left a fallback lead; with no success among
\* them the counter went 3, 6 by two calls that used up their retries, and
\* the third call was blocked by the breaker before this one.
C33_Witness ==
  /\ pc = "finish"
  /\ via = "circuit"
  /\ IsFallback(verdict)
  /\ GPT_CIRCUIT_BREAKER_ACTIVE
  /\ Cardinality(leads) = 3

\* A classify call is under way: before its guard checks or in its loop.
InCall == pc \in {"analyze", "attempt"}

\* C34: every classify call that starts comes to its return, and the
\* verdict it returns -- the classifier's answer or the fallback, whatever
\* the classifier did and whatever the guard state was -- satisfies
\* validate_gpt_response; no call is left by an exception.
C34_ReturnsValidVerdict ==
  /\ [](InCall => <>(pc = "finish"))
  /\ [](pc = "finish" => validate_gpt_response(verdict))
  /\ [][InCall => (InCall' \/ pc' = "finish")]_vars

\* A call whose answers ran into the cost limit has returned the fallback.
C34_Witness ==
  /\ pc = "finish"
  /\ run_exceeded
  /\ via = "exhausted"
  /\ IsFallback(verdict)
  /\ validate_gpt_response(verdict)

\* ------------------------------------------------------------ the monitor
\* The loop threads that are alive, apart from those a stop has told to
\* end and that have not yet come to their next check.
Surviving == {l \in LoopThreads : Alive(l) /\ l \notin stale}
NoSecondThread ==
  scheduler_running =>
    \A l \in LoopThreads : job[l] = "unstarted" => job'[l] = "unstarted"

\* C35: after any interleaving of start_background_scheduler,
\* stop_background_scheduler and the loop threads, at most one loop thread
\* keeps executing schedule.run_pending: a thread started before a stop ends
\* at its next check and does not survive a later start, and a start while
\* a scheduler is running starts no second thread.
C35_AtMostOneLoopThread ==
  /\ [](Cardinality(Surviving) <= 1)
  /\ [][NoSecondThread]_vars

\* Thread t returns from run_scraper_job: after the scraper, or at once
\* because monitoring is paused.
Returns(t) ==
  \/ job[t] = "running" /\ job'[t] = "idle"
  \/ job[t] # "skipped" /\ job'[t] = "skipped"
ReturnsClean ==
  \A t \in Threads :
    Returns(t) =>
      /\ ~is_running'
      /\ \A u \in Threads : job'[u] # "running"
      /\ job[t] = "running" =>
           /\ last_run_status' \in {"success", "error"}
           /\ next_run_time' # next_run_time =>
                last_run_status' = "success"

\* C36: is_running is true exactly while some execution of run_scraper_job
\* is inside the scraper call; whenever run_scraper_job returns (success,
\* scraper exception, or skip) no run is executing and is_running is false;
\* after an executed run last_run_status is "success" or an error status,
\* and the run changes next_run_time only on success.
C36_RunningIffInsideScraper ==
  /\ [](is_running <=> \E t \in Threads : job[t] = "running")
  /\ [][ReturnsClean]_vars

\* The script thread calls run_once.
RunOnceCalled ==
  /\ Free(0)
  /\ job'[0] \in {"running", "skipped"}
  /\ job'[0] # job[0]
RunOnceScrapes == RunOnceCalled => job'[0] = "running"

\* C37: each call of run_once executes the scraper, whether scheduled
\* monitoring is active or paused in the configuration.
C37_RunOnceExecutesScraper == [][RunOnceScrapes]_vars

\* While monitoring is paused no invocation enters the scraper, and an
\* invocation that returns at once leaves the monitor's fields alone.
PausedFrame ==
  ~monitoring_active =>
    \A t \in Threads :
      /\ job'[t] = "running" => job[t] = "running"
      /\ job[t] # "skipped" /\ job'[t] = "skipped" =>
           UNCHANGED <<is_running, last_run_status, last_run_time,
                       next_run_time>>
\* A step of start_monitoring or stop_monitoring writes monitoring.active
\* and nothing else.
ConfigFrame ==
  Free(0) /\ job'[0] \in {"starting", "stopping"} =>
    /\ monitoring_active' = (job'[0] = "starting")
    /\ UNCHANGED <<interval_hours, scheduler_running, is_running,
                   last_run_status, last_run_time, next_run_time, stale>>
    /\ UNCHANGED ProgramVars
Idempotent ==
  /\ stop_monitoring(stop_monitoring(Config)) = stop_monitoring(Config)
  /\ start_monitoring(start_monitoring(Config)) = start_monitoring(Config)

\* C38: after stop_monitoring has completed and until start_monitoring is
\* called, every run_scraper_job invocation that starts returns without
\* invoking the scraper and leaves is_running, last_run_status,
\* last_run_time and next_run_time unchanged; stop_monitoring and
\* start_monitoring change only the monitoring.active entry of the
\* configuration and are idempotent.
C38_PausedJobsSkip ==
  /\ [][PausedFrame]_vars
  /\ [][ConfigFrame]_vars
  /\ []Idempotent

\* After a successful run and a stop, a loop thread's job has returned at
\* once, under a configuration whose interval is not the default.
C38_Witness ==
  /\ ~monitoring_active
  /\ job[0] # "stopping"
  /\ \E l \in LoopThreads : job[l] = "skipped"
  /\ last_run_status = "success"
  /\ next_run_time > 0
  /\ interval_hours > 1

\* -------------------------------------------------- PhantomBuster polling
\* The container of the last poll has finished: its endDate is set.
Finished(poll) == poll.kind = "container" /\ ~Falsy(poll.endDate)
WaitOutcome ==
  call_result.returned =>
    /\ call_result.outcome = "container" =>
         Finished(call_result.last)
           /\ call_result.last.lastEndStatus = "success"
    /\ Finished(call_result.last)
         /\ call_result.last.lastEndStatus # "success" =>
           call_result.outcome = "Exception"
    /\ ~Finished(call_result.last) /\ call_result.last.kind # "error" =>
         /\ call_result.outcome = "TimeoutError"
         /\ call_result.elapsed > call_args.timeout

\* C39: wait_for_completion returns a container only if it has an endDate
\* and lastEndStatus "success"; a finished container with any other status
\* makes it raise; and when the container never finishes, also when every
\* poll reports it as not found, the call raises TimeoutError once the
\* elapsed time exceeds timeout: every call comes to an end.
C39_WaitEndsJustified ==
  /\ []WaitOutcome
  /\ <>(call_result.returned)

\* A call whose container never finished, and whose last poll said "not
\* found", has ended in TimeoutError.
C39_Witness ==
  /\ call_result.returned
  /\ call_result.outcome = "TimeoutError"
  /\ call_result.last.kind = "not_found"
  /\ call_result.elapsed > call_args.timeout
  /\ call_args.timeout > initial_delay

\* --------------------------------------------------------- Twitter search
\* Keyword k's search returned, with a tweet of this id.
Found(k, id) ==
  /\ ~call_args.results[k].raises
  /\ \E j \in 1 .. Len(call_args.results[k].ids) :
       call_args.results[k].ids[j] = id
FirstFound(k, id) == Found(k, id) /\ \A e \in 1 .. k - 1 : ~Found(e, id)

\* C40: search_twitter_for_leads returns a list in which no two tweets
\* share an id: of the tweets with an id the first occurrence across the
\* keywords, in keyword order, is kept, and tweets without an id are
\* dropped.  An exception while one keyword is searched is contained: the
\* results of the keywords before it are kept and the keywords after it are
\* still searched.
C40_DistinctFirstOccurrences ==
  call_args.fn = "search_twitter_for_leads" /\ call_result.returned =>
    LET out == call_result.all_tweets
    IN  /\ \A a, b \in 1 .. Len(out) : out[a].id = out[b].id => a = b
        /\ \A a, b \in 1 .. Len(out) :
             a < b => out[a].keyword < out[b].keyword
                        \/ out[a].keyword = out[b].keyword
        /\ \A a \in 1 .. Len(out) : out[a].id # None
        /\ \A k \in 1 .. Len(call_args.results), id \in TweetIds :
             FirstFound(k, id) <=>
               \E a \in 1 .. Len(out) :
                 out[a] = [id |-> id, keyword |-> k]

\* The first keyword's search raised, the second returned more tweets than
\* were kept, and the list returned is not empty.
C40_Witness ==
  /\ call_args.fn = "search_twitter_for_leads"
  /\ call_result.returned
  /\ Len(call_args.results) >= 2
  /\ call_args.results[1].raises
  /\ ~call_args.results[2].raises
  /\ Len(call_result.all_tweets) > 0
  /\ Len(call_args.results[2].ids) > Len(call_result.all_tweets)

====
